---- MODULE Spec2Model ----
(***************************************************************************)
(* Bonk.fun volume bot: the transaction execution engine                   *)
(* (TransactionManager), the wallet lifecycle manager (WalletManager) and  *)
(* the session orchestrator (TradingEngine), as state machines.            *)
(*                                                                         *)
(* Execution model: one JavaScript event loop.  Every action below is the  *)
(* code that runs between two suspension points (an await on a ledger      *)
(* call, on a timer, or on a batch join).  Time is the variable now, in    *)
(* milliseconds; a timer armed with setTimeout(ms) fires when now reaches  *)
(* its deadline, and time never passes a deadline or a runnable            *)
(* continuation.                                                           *)
(***************************************************************************)
EXTENDS Integers, Sequences, FiniteSets, TLC

(***************************************************************************)
(* Bounds of the model.                                                    *)
(***************************************************************************)
MaxOps == 2
MaxLatencyTicks == 1

(***************************************************************************)
(* Program constants.                                                      *)
(***************************************************************************)
maxAttempts == 3
baseDelay == 1000
maxDelay == 10000
backoffMultiplier == 2
NetLatency == 100

VARIABLES
    now,          \* Date.now(), ms
    lat,          \* latency ticks taken so far (bounds the clock)
    debugMode,    \* ConfigManager.isDebugMode(): process.env.DEBUG === 'true'
    ops,          \* the operations of the batch in flight, by input position
    failuresLeft, \* failing sendTransaction calls the ledger may still produce
    faults,       \* the ways the ledger fails in this run
    tmPc,         \* position of the executeTransactions{Parallel,Sequential} call
    tmIdx,        \* loop index i of executeTransactionsSequential (1-based)
    tmDelayMs,    \* delayMs argument of executeTransactionsSequential
    tmWake,       \* deadline of the pause between sequential transactions
    tmResults,    \* the results array built / returned by the batch call
    tmLog,        \* per sequential transaction: when it was started and settled
    files,        \* wallet files on disk: [dir, pk, birthtime]
    nextKey,      \* the next public key Keypair.generate() returns
    wmCreated,    \* WalletManager API: wallets createWallets has returned, with time
    wmSelling,    \* WalletManager API: latest getWalletsForSelling answer, with time
    wmReturned,   \* WalletManager API: latest createWallets call and what it returned
    wmDeleted,    \* WalletManager API: keys whose live file deleteWallet has unlinked
    wmSweep,      \* WalletManager API: latest retrieveFunds call and how it ended
    config,       \* session.config
    session,      \* the TradingSession handed to executeSession
    isRunning,    \* TradingEngine.isRunning
    spc,          \* position of the executeSession call
    cycle,        \* loop variable of executeSession (0-based)
    buyAmount,    \* buyAmount of the cycle in progress
    sellWallets,  \* sellWallets of executeSellTransactions
    sellIdx,      \* loop variable i of executeSellTransactions
    sWake,        \* deadline of the session's pending delay
    collector,    \* MetricsCollector: metrics and transactionTimes
    cyclesStarted, \* history: calls of executeTradingCycle so far
    phases,       \* history: the phases of the latest cycle that have finished
    stopAt,       \* history: where the session was when stop() was first called
    sessionThrown, \* the error executeSession has re-thrown, if any
    retryLog,     \* the two latest evaluations of calculateRetryDelay
    launch,       \* BotManager: the latest attempt to start a session
    mcCall,       \* MetricsCollector API: the latest call and what it returned
    mcRecorded,   \* history: the results recorded since construction or reset
    mcSnapshot,   \* the object the latest getMetrics call returned
    drawLog,      \* the latest random draw: function, range, Math.random(), value
    rfPc,         \* position of the TradingEngine.retrieveFunds call
    rfWallets,    \* wallets of TradingEngine.retrieveFunds
    rfIdx,        \* loop variable i of TradingEngine.retrieveFunds
    rfPos,        \* position in the batch of the wallet retrieveFundsBatch is at
    rfDelayMs,    \* delayMs argument of TradingEngine.retrieveFunds
    rfWake,       \* deadline of the pending delay of TradingEngine.retrieveFunds
    rfLog,        \* history: the sweeps attempted, with how each ended
    other         \* a second executeSession call on the same TradingEngine

clock == <<now, lat>>

opVars == <<ops, failuresLeft>>

env == <<debugMode, faults>>

tmVars == <<tmPc, tmIdx, tmDelayMs, tmWake, tmResults, tmLog>>

wmApi == <<wmReturned, wmDeleted, wmSweep>>

wmVars == <<files, nextKey, wmCreated, wmSelling, wmApi>>

seVars == <<config, session, isRunning, spc, cycle, buyAmount, sellWallets, sellIdx,
           sWake, collector, cyclesStarted, phases, stopAt, sessionThrown>>

mcVars == <<mcCall, mcRecorded, mcSnapshot>>

rfVars == <<rfPc, rfWallets, rfIdx, rfPos, rfDelayMs, rfWake, rfLog>>

teVars == <<rfVars, other>>

pfVars == <<retryLog, launch, mcVars, drawLog, teVars>>

vars == <<clock, env, opVars, tmVars, wmVars, seVars, pfVars>>

(***************************************************************************)
(* Values.                                                                 *)
(***************************************************************************)
EmptySignature == <<>>           \* the string ''
NoError == <<>>                  \* no error message
NoTimer == -1

Signature(i, attempt) == <<"sig", i, attempt>>   \* what sendTransaction resolves to

\* Messages of the errors the ledger client raises, and of the BotErrors
\* sendTransaction's helpers throw.  A message is a sequence of text pieces.
BlockhashFailure == <<"failed to get recent blockhash">>
SendFailure == <<"failed to send transaction">>
ConfirmTimeout == <<"block height exceeded">>
SimulateFailure == <<"failed to simulate transaction">>
SimulationErr == <<"Transaction simulation failed: ", "InstructionError">>
ConfirmationErr == <<"Transaction confirmation failed: ", "InstructionError">>
NoSwapInstruction(kind) ==
    IF kind = "sell" THEN <<"Failed to get sell instruction">>
    ELSE <<"Failed to get swap instruction">>

Min(S) == CHOOSE x \in S : \A y \in S : x <= y

RECURSIVE Pow(_, _)
Pow(b, e) == IF e = 0 THEN 1 ELSE b * Pow(b, e - 1)

\* Fault model: retries without backoff.
calculateRetryDelayNone(attempt) == 0

\* Fault model: exponential backoff without the cap.
calculateRetryDelayUncapped(attempt) == baseDelay * Pow(backoffMultiplier, attempt - 1)

\* TransactionManager.calculateRetryDelay
calculateRetryDelay(attempt) ==
    LET delay == baseDelay * Pow(backoffMultiplier, attempt - 1)
    IN  IF delay < maxDelay THEN delay ELSE maxDelay

\* Fault model: the last error rethrown without the retry count.
ExhaustedErrorBare(lastErr) ==
    [ message |-> lastErr, type |-> "TRANSACTION_ERROR",
      context |-> [lastError |-> lastErr] ]

\* new BotError(`Transaction failed after ${maxAttempts} attempts: ${lastError?.message}`,
\*              ErrorType.TRANSACTION_ERROR, { lastError: lastError?.message })
ExhaustedError(lastError) ==
    [ message |-> <<"Transaction failed after ", ToString(maxAttempts), " attempts: ">>
                    \o lastError,
      type    |-> "TRANSACTION_ERROR",
      context |-> [lastError |-> lastError] ]


(***************************************************************************)
(* One operation: executeTransaction with its caller's try/catch.          *)
(* kind "raw": a transaction handed to executeTransactionsParallel or      *)
(* executeTransactionsSequential; "buy" / "sell": TradingEngine's          *)
(* executeBuyTransaction / executeSellTransaction.                         *)
(* pc: "new" not started; "attempt" awaiting sendTransaction; "backoff"    *)
(* awaiting the retry delay; "done" settled.                               *)
(***************************************************************************)
Pending == [status |-> "pending"]
Fulfilled(v) == [status |-> "fulfilled", value |-> v]
Rejected(e) == [status |-> "rejected", reason |-> e]

NoThrow == [type |-> "none"]

NoRun == [calls |-> <<>>, threw |-> FALSE, signature |-> EmptySignature]

NewOp(kind, amount, wallet) ==
    [ kind      |-> kind,
      pc        |-> "new",
      attempt   |-> 0,          \* loop variable of executeTransaction
      sent      |-> 0,          \* calls of sendTransaction made so far
      lastRun   |-> NoRun,      \* how the latest sendTransaction call ended
      thrown    |-> NoThrow,    \* the error executeTransaction has thrown
      wake      |-> NoTimer,
      startTime |-> 0,
      amount    |-> amount,
      wallet    |-> wallet,     \* public key of the signer
      result    |-> Pending ]

\* Fault model: a success record that does not carry the volume.
OnSignatureWithoutVolume(op, signature, t) ==
    IF op.kind = "raw"
    THEN Fulfilled([success |-> TRUE, signature |-> signature])
    ELSE Fulfilled([ signature     |-> signature,
                     success       |-> TRUE,
                     executionTime |-> t - op.startTime ])

\* The try-branch of the caller: what the caller's promise fulfils with when
\* executeTransaction returns signature at time t.
OnSignature(op, signature, t) ==
    IF op.kind = "raw"
    THEN Fulfilled([success |-> TRUE, signature |-> signature])
    ELSE Fulfilled([ signature     |-> signature,
                     success       |-> TRUE,
                     executionTime |-> t - op.startTime,
                     volume        |-> op.amount ])

\* Fault model: a caller without its catch-branch, whose promise rejects.
OnErrorRejects(op, err, t) == Rejected(err)

\* The catch-branch of the caller, for the error err caught at time t.
OnError(op, err, t) ==
    IF op.kind = "raw"
    THEN Fulfilled([success |-> FALSE, error |-> err.message])
    ELSE Fulfilled([ signature     |-> EmptySignature,
                     success       |-> FALSE,
                     error         |-> err.message,
                     executionTime |-> t - op.startTime ])

\* The caller's promise settles.
Settle(op, result) ==
    [op EXCEPT !.pc = "done", !.wake = NoTimer, !.result = result]

\* Fault model: a retry loop that runs one time too many.
LoopContinuesOnceMore(attempt) == attempt <= maxAttempts + 1

\* for (let attempt = 1; attempt <= maxAttempts; attempt++)
LoopContinues(attempt) == attempt <= maxAttempts

\* Fault model: the delay is slept after the last attempt too.
MayRetryAlways(attempt) == attempt <= maxAttempts

\* if (attempt < maxAttempts) { await this.delay(calculateRetryDelay(attempt)) }
MayRetry(attempt) == attempt < maxAttempts

\* lastError = error as Error: the local lastError is written by every failed
\* attempt and read only after the loop, so its value there is the message of
\* the latest failed sendTransaction call.
lastError(op) == IF op.lastRun.threw THEN op.lastRun.message ELSE NoError

\* Loop head of executeTransaction with the loop variable at attempt: either
\* sendTransaction is called (and suspends on the ledger), or the loop is over
\* and the BotError is thrown into the caller's catch.
LoopHead(op, attempt) ==
    IF LoopContinues(attempt)
    THEN [op EXCEPT !.attempt = attempt, !.sent = @ + 1, !.pc = "attempt",
                    !.wake = NoTimer, !.lastRun = NoRun]
    ELSE Settle([op EXCEPT !.attempt = attempt,
                           !.thrown = ExhaustedError(lastError(op))],
                OnError(op, ExhaustedError(lastError(op)), now))

\* The caller starts its operation at time now.
StartRaw(op) == LoopHead([op EXCEPT !.startTime = now], 1)

\* executeBuyTransaction / executeSellTransaction up to the first suspension on
\* the ledger.  PoolManager.getSwapInstruction makes no ledger call: it has
\* resolved, with an instruction or with null, before anything else runs.
StartTrade(op, instruction) ==
    LET started == [op EXCEPT !.startTime = now]
    IN  IF instruction THEN LoopHead(started, 1)
        ELSE Settle(started,
                    OnError(started, [message |-> NoSwapInstruction(op.kind)], now))

\* catch (error) of executeTransaction: the sendTransaction call ended as run.
AttemptFailed(op, run) ==
    LET failed == [op EXCEPT !.lastRun = run]
    IN  IF MayRetry(op.attempt)
        THEN [failed EXCEPT !.pc = "backoff",
                            !.wake = now + calculateRetryDelay(op.attempt)]
        ELSE LoopHead(failed, op.attempt + 1)

\* One call of sendTransaction(instructions, signers) for attempt number attempt
\* of operation i, as a function of what the ledger answers to each call the
\* attempt makes: ledger.blockhash / ledger.send are TRUE when the call
\* succeeds; ledger.simulate / ledger.confirm are "ok", "err" (the answer
\* carries value.err) or "throw" (the call itself fails).  Result: the ledger
\* calls made, in order, each with the blockhash it was given and the ledger's
\* answer, and either the signature returned or the message of the error
\* thrown.
Threw(calls, message) == [calls |-> calls, threw |-> TRUE, message |-> message]

\* The blockhash connection.getLatestBlockhash() returns to attempt number
\* attempt of operation i: the ledger's latest one at the time of the call.
Blockhash(i, attempt) == <<"blockhash", i, attempt>>

Call(name, blockhash, answer) ==
    [call |-> name, blockhash |-> blockhash, answer |-> answer]

OkOrThrow(ok) == IF ok THEN "ok" ELSE "throw"

\* Fault model: a simulation whose value.err is logged and passed over.
simulateTransactionIgnoringErr(answer) ==
    IF answer = "throw" THEN SimulateFailure ELSE NoError

\* simulateTransaction(transaction): the message of the error it throws, or
\* NoError when it returns.
simulateTransaction(answer) ==
    IF answer = "throw" THEN SimulateFailure
    ELSE IF answer = "err" THEN SimulationErr
    ELSE NoError

\* Fault model: a confirmation whose value.err is not looked at.
confirmTransactionIgnoringErr(answer) ==
    IF answer = "throw" THEN ConfirmTimeout ELSE NoError

\* confirmTransaction(signature, blockhash, lastValidBlockHeight): the message
\* of the error it throws, or NoError when it returns.
confirmTransaction(answer) ==
    IF answer = "throw" THEN ConfirmTimeout
    ELSE IF answer = "err" THEN ConfirmationErr
    ELSE NoError

sendTransaction(i, attempt, debug, ledger) ==
    LET blockhash == Blockhash(i, attempt)
        c1 == <<Call("getLatestBlockhash", blockhash, OkOrThrow(ledger.blockhash))>>
        c2 == IF debug
              THEN Append(c1, Call("simulateTransaction", blockhash, ledger.simulate))
              ELSE c1
        c3 == Append(c2, Call("sendTransaction", blockhash, OkOrThrow(ledger.send)))
        c4 == Append(c3, Call("confirmTransaction", blockhash, ledger.confirm))
    IN  IF ~ledger.blockhash THEN Threw(c1, BlockhashFailure)
        ELSE IF debug /\ simulateTransaction(ledger.simulate) # NoError
             THEN Threw(c2, simulateTransaction(ledger.simulate))
        ELSE IF ~ledger.send THEN Threw(c3, SendFailure)
        ELSE IF confirmTransaction(ledger.confirm) # NoError
             THEN Threw(c4, confirmTransaction(ledger.confirm))
        ELSE [calls |-> c4, threw |-> FALSE, signature |-> Signature(i, attempt)]

\* The answers of a ledger that fails in the ways named by fs only.
LedgerAnswers(fs) ==
    [ blockhash : {TRUE} \cup (IF "blockhash" \in fs THEN {FALSE} ELSE {}),
      simulate  : {"ok"} \cup (IF "simulateErr" \in fs THEN {"err"} ELSE {})
                         \cup (IF "simulate" \in fs THEN {"throw"} ELSE {}),
      send      : {TRUE} \cup (IF "send" \in fs THEN {FALSE} ELSE {}),
      confirm   : {"ok"} \cup (IF "confirmErr" \in fs THEN {"err"} ELSE {})
                         \cup (IF "confirm" \in fs THEN {"throw"} ELSE {}) ]

AllFaults == {"blockhash", "simulate", "simulateErr", "send", "confirm", "confirmErr"}

\* What the sendTransaction call in flight for operation i can settle with.
Runs(i) ==
    {sendTransaction(i, ops[i].attempt, debugMode, ledger) : ledger \in LedgerAnswers(faults)}

OpAt(i, pc) == i \in DOMAIN ops /\ ops[i].pc = pc

SetOp(i, op) == ops' = [ops EXCEPT ![i] = op]

\* The sendTransaction call of the current attempt settles: executeTransaction
\* returns its signature (and the caller's try-branch runs), or catches.
SendTransactionSettles(i, run) ==
    /\ OpAt(i, "attempt")
    /\ run \in Runs(i)
    /\ run.threw => failuresLeft > 0
    /\ failuresLeft' = IF run.threw THEN failuresLeft - 1 ELSE failuresLeft
    /\ SetOp(i, IF run.threw
                THEN AttemptFailed(ops[i], run)
                ELSE Settle([ops[i] EXCEPT !.lastRun = run],
                            OnSignature(ops[i], run.signature, now)))
    /\ UNCHANGED <<clock, env, pfVars, tmVars, wmVars, seVars>>

\* The retry delay is over: attempt++ and back to the loop head.
RetryDelayFires(i) ==
    /\ OpAt(i, "backoff")
    /\ now >= ops[i].wake
    /\ SetOp(i, LoopHead(ops[i], ops[i].attempt + 1))
    /\ UNCHANGED <<clock, env, pfVars, failuresLeft, tmVars, wmVars, seVars>>

AllDone == \A i \in DOMAIN ops : ops[i].pc = "done"


(***************************************************************************)
(* TransactionManager.executeTransactionsParallel                           *)
(***************************************************************************)
\* Fault model: only the first callback runs before the await.
ParallelStartedFirst(k) == IF k = 0 THEN {} ELSE {1}

\* transactions.map(async (tx, index) => ...): the inputs whose callback has
\* run up to its first suspension when map returns.
ParallelStarted(k) == 1 .. k

executeTransactionsParallel(k) ==
    /\ tmPc = "idle"
    /\ ops' = [i \in 1 .. k |->
                IF i \in ParallelStarted(k) THEN StartRaw(NewOp("raw", 0, 0))
                ELSE NewOp("raw", 0, 0)]
    /\ tmPc' = "par"
    /\ UNCHANGED <<clock, env, pfVars, failuresLeft, wmVars, seVars>>
    /\ UNCHANGED <<tmIdx, tmDelayMs, tmWake, tmResults, tmLog>>

\* await Promise.all(promises): rejects with the first rejection, otherwise
\* fulfils, once every promise has, with the values by input position.
SomeRejected == \E i \in DOMAIN ops : ops[i].result.status = "rejected"

PromiseAllReady == SomeRejected \/ AllDone

ParallelJoin ==
    /\ tmPc = "par"
    /\ PromiseAllReady
    /\ IF SomeRejected
       THEN tmPc' = "rejected" /\ UNCHANGED tmResults
       ELSE /\ tmPc' = "returned"
            /\ tmResults' = [i \in DOMAIN ops |-> ops[i].result.value]
    /\ UNCHANGED <<clock, env, pfVars, opVars, wmVars, seVars>>
    /\ UNCHANGED <<tmIdx, tmDelayMs, tmWake, tmLog>>

(***************************************************************************)
(* TransactionManager.executeTransactionsSequential                         *)
(***************************************************************************)
\* Fault model: a sequential loop that returns at the first failure.
SequentialLoopStopsOnFailure(idx, opsNow) ==
    IF idx <= Len(opsNow) /\ (idx = 1 \/ opsNow[idx - 1].result.value.success)
    THEN /\ ops' = [opsNow EXCEPT ![idx] = StartRaw(opsNow[idx])]
         /\ tmIdx' = idx
         /\ tmPc' = "seq"
    ELSE /\ ops' = opsNow
         /\ tmIdx' = idx
         /\ tmPc' = "returned"

\* Top of the for loop with i (1-based) = idx: start transaction idx, or leave
\* the loop and return results.
SequentialLoop(idx, opsNow) ==
    IF idx <= Len(opsNow)
    THEN /\ ops' = [opsNow EXCEPT ![idx] = StartRaw(opsNow[idx])]
         /\ tmIdx' = idx
         /\ tmPc' = "seq"
    ELSE /\ ops' = opsNow
         /\ tmIdx' = idx
         /\ tmPc' = "returned"

executeTransactionsSequential(k, delayMs) ==
    /\ tmPc = "idle"
    /\ tmDelayMs' = delayMs
    /\ tmResults' = <<>>
    /\ tmLog' = [i \in 1 .. k |-> [settledAt |-> NoTimer]]
    /\ SequentialLoop(1, [i \in 1 .. k |-> NewOp("raw", 0, 0)])
    /\ UNCHANGED <<clock, env, pfVars, failuresLeft, tmWake, wmVars, seVars>>

\* if (i < transactions.length - 1) await this.delay(delayMs): the statement is
\* in the try-branch, after results.push({ success: true, signature }).
PauseAfter(idx, success) == success /\ idx < Len(ops)

\* The await of executeTransaction for transaction tmIdx is over: push its
\* result, then pause (try-branch, not the last one) or go on at once.
SequentialSettled ==
    /\ tmPc = "seq"
    /\ OpAt(tmIdx, "done")
    /\ tmResults' = Append(tmResults, ops[tmIdx].result.value)
    /\ tmLog' = [tmLog EXCEPT ![tmIdx].settledAt = now]
    /\ IF PauseAfter(tmIdx, ops[tmIdx].result.value.success)
       THEN /\ tmPc' = "seqDelay"
            /\ tmWake' = now + tmDelayMs
            /\ UNCHANGED <<ops, tmIdx>>
       ELSE /\ SequentialLoop(tmIdx + 1, ops)
            /\ UNCHANGED tmWake
    /\ UNCHANGED <<clock, env, pfVars, failuresLeft, tmDelayMs, wmVars, seVars>>

SequentialDelayFires ==
    /\ tmPc = "seqDelay"
    /\ now >= tmWake
    /\ SequentialLoop(tmIdx + 1, ops)
    /\ tmWake' = NoTimer
    /\ UNCHANGED <<clock, env, pfVars, failuresLeft, tmDelayMs, tmResults, tmLog, wmVars, seVars>>

(***************************************************************************)
(* WalletManager: the wallet files.                                        *)
(***************************************************************************)
minAge == 30000

MaxKeys == 2
MaxOldWallets == 1
MaxWalletTime == 31000

TokenMint == "mint"

\* path.join(process.cwd(), 'data', 'wallets') and path.join(walletsDir, tokenMint)
walletsDir == <<"data", "wallets">>
PathJoin(dir, name) == Append(dir, name)

\* saveWallet(wallet, tokenMint?): filePath = path.join(this.walletsDir, filename)
saveWalletDir(tokenMint) == walletsDir

\* getWalletsForSelling(tokenMint): tokenWalletsDir = path.join(this.walletsDir, tokenMint)
tokenWalletsDir(tokenMint) == PathJoin(walletsDir, tokenMint)

WalletFile(dir, pk, t) == [dir |-> dir, pk |-> pk, birthtime |-> t]

\* fs.existsSync(dir); a directory is known by the files in it (an empty
\* directory and a missing one read the same way below).
DirExists(fs, dir) == dir = walletsDir \/ \E f \in fs : f.dir = dir

RECURSIVE SortedSeq(_)
SortedSeq(S) ==
    IF S = {} THEN <<>>
    ELSE LET m == Min(S) IN <<m>> \o SortedSeq(S \ {m})

InSeq(x, seq) == \E i \in DOMAIN seq : seq[i] = x

\* createWallets(count): wallet i gets the next fresh key; it is written by
\* saveWallet at time t and pushed to the returned list unless the write throws
\* (i \notin saved).
NewKeys(count) == [i \in 1 .. count |-> nextKey + i - 1]

\* Fault model: wallets pushed before they are saved.
CreatedWalletsUnsaved(count, saved) == SortedSeq({NewKeys(count)[i] : i \in 1 .. count})

\* Fault model: a creation loop that stops one wallet short.
CreatedWalletsButLast(count, saved) ==
    SortedSeq({NewKeys(count)[i] : i \in saved \ {count}})

CreatedWallets(count, saved) == SortedSeq({NewKeys(count)[i] : i \in saved})

CreatedFiles(count, saved, t) ==
    {WalletFile(saveWalletDir(TokenMint), NewKeys(count)[i], t) : i \in saved}

\* getWalletsForSelling(tokenMint) at time t over the files fs, in readdir order.
getWalletsForSelling(fs, tokenMint, t) ==
    LET dir == tokenWalletsDir(tokenMint)
    IN  IF ~DirExists(fs, dir) THEN <<>>
        ELSE SortedSeq({f.pk : f \in {g \in fs : g.dir = dir /\ t - g.birthtime >= minAge}})

\* Wallet files found in the token's directory when the program starts.
OldFiles(n) == {WalletFile(tokenWalletsDir(TokenMint), 0 - i, 0 - minAge) : i \in 1 .. n}

(***************************************************************************)
(* The WalletManager interface called directly.                            *)
(***************************************************************************)
WmCreateWallets(count, saved) ==
    /\ nextKey + count - 1 <= MaxKeys
    /\ files' = files \cup CreatedFiles(count, saved, now)
    /\ nextKey' = nextKey + count
    /\ wmCreated' = wmCreated \cup
                      {[pk |-> NewKeys(count)[i], at |-> now] : i \in saved}
    /\ wmReturned' = [count |-> count, wallets |-> CreatedWallets(count, saved),
                      threw |-> FALSE]
    /\ UNCHANGED <<clock, env, pfVars, opVars, tmVars, wmSelling, wmDeleted, wmSweep, seVars>>

WmGetWalletsForSelling ==
    /\ wmSelling' = [at |-> now, wallets |-> getWalletsForSelling(files, TokenMint, now)]
    /\ UNCHANGED <<clock, env, pfVars, opVars, tmVars, files, nextKey, wmCreated, wmApi, seVars>>

WmTimePasses(d) ==
    /\ now + d <= MaxWalletTime
    /\ now' = now + d
    /\ UNCHANGED <<lat, env, pfVars, opVars, tmVars, wmVars, seVars>>

(***************************************************************************)
(* MetricsCollector                                                        *)
(***************************************************************************)
\* A quotient the program computes in floating point, kept exact.
Ratio(n, d) == [num |-> n, den |-> d]

RECURSIVE Sum(_)
Sum(seq) == IF seq = <<>> THEN 0 ELSE Head(seq) + Sum(Tail(seq))

NewCollector ==
    [ metrics |-> [ totalTransactions      |-> 0,
                    successfulTransactions |-> 0,
                    failedTransactions     |-> 0,
                    successRate            |-> Ratio(0, 1),
                    totalVolume            |-> 0,
                    averageTransactionTime |-> Ratio(0, 1),
                    totalFees              |-> 0,
                    profitLoss             |-> 0 ],
      transactionTimes |-> <<>> ]

\* Fault model: the success rate as a fraction instead of a percentage.
calculateSuccessRateFraction(m) ==
    IF m.totalTransactions = 0 THEN Ratio(0, 1)
    ELSE Ratio(m.successfulTransactions, m.totalTransactions)

calculateSuccessRate(m) ==
    IF m.totalTransactions = 0 THEN Ratio(0, 1)
    ELSE Ratio(m.successfulTransactions * 100, m.totalTransactions)

calculateAverageTransactionTime(times) ==
    IF Len(times) = 0 THEN Ratio(0, 1) ELSE Ratio(Sum(times), Len(times))

\* if (result.volume): the field is present and not zero
Truthy(r, field) == field \in DOMAIN r /\ r[field] # 0

\* Fault model: an aggregator that counts only the successes.
recordTransactionSuccessOnly(c, result) ==
    LET m1 == [c.metrics EXCEPT !.totalTransactions = @ + 1]
        m2 == IF result.success
              THEN [m1 EXCEPT !.successfulTransactions = @ + 1]
              ELSE m1
    IN  [ metrics |-> [m2 EXCEPT !.successRate = calculateSuccessRate(m2)],
          transactionTimes |-> Append(c.transactionTimes, result.executionTime) ]

recordTransaction(c, result) ==
    LET m1 == [c.metrics EXCEPT !.totalTransactions = @ + 1]
        m2 == IF result.success
              THEN [m1 EXCEPT !.successfulTransactions = @ + 1]
              ELSE [m1 EXCEPT !.failedTransactions = @ + 1]
        m3 == [m2 EXCEPT !.successRate = calculateSuccessRate(m2)]
        times == Append(c.transactionTimes, result.executionTime)
        m4 == [m3 EXCEPT !.averageTransactionTime = calculateAverageTransactionTime(times)]
        m5 == IF Truthy(result, "volume")
              THEN [m4 EXCEPT !.totalVolume = @ + result.volume] ELSE m4
        m6 == IF Truthy(result, "gasUsed")
              THEN [m5 EXCEPT !.totalFees = @ + result.gasUsed] ELSE m5
    IN  [metrics |-> m6, transactionTimes |-> times]

(***************************************************************************)
(* TradingEngine: the session orchestrator.                                *)
(* spc: "idle" executeSession not called; "pool" awaiting getPoolInfo;     *)
(* "buy" awaiting the buys of the cycle; "settle" in the settle pause;     *)
(* "sell" awaiting a sell batch; "batchDelay" in the pause after a batch;  *)
(* "cycleDelay" in the delay after a cycle; "done" returned; "failed"      *)
(* rethrown.                                                               *)
(***************************************************************************)
MaxCycles == 2
MaxWallets == 2
RandDenom == 2
MaxLedgerFailures == 3

settlePause == 5000
batchSize == 5
batchPause == 1000

NoStop == [started |-> 0 - 1, spc |-> "none"]

\* Math.random() is draw / RandDenom, in [0, 1).
RandomDraws == 0 .. RandDenom - 1

\* Amounts and delays are counted in 1/RandDenom of the configured unit, so
\* that range.min + Math.random() * rangeSize is exact.
\* Fault model: the random part scaled by range.max instead of the range size.
getRandomAmountScaledByMax(range, draw) == range.min * RandDenom + draw * range.max

getRandomAmount(range, draw) == range.min * RandDenom + draw * (range.max - range.min)

\* Fault model: a wallet count drawn from the closed interval [min, max].
getRandomWalletCountInclusive(range, draw) ==
    (range.min * RandDenom + draw * (range.max - range.min + 1)) \div RandDenom

\* Math.floor(range.min + randomValue)
getRandomWalletCount(range, draw) ==
    (range.min * RandDenom + draw * (range.max - range.min)) \div RandDenom

getRandomDelay(range, draw) == range.min * RandDenom + draw * (range.max - range.min)

\* this.delay(delay * 1000): setTimeout takes whole milliseconds
DelayTimeout(delay) == (delay * 1000) \div RandDenom

\* TradingSession.getSuccessRate()
getSuccessRate(s) ==
    IF s.totalTransactions = 0 THEN Ratio(0, 1)
    ELSE Ratio(s.successfulTransactions * 100, s.totalTransactions)

NewSession(cfg) ==
    [ isActive               |-> FALSE,
      startTime              |-> 0,
      endTime                |-> NoTimer,
      totalTransactions      |-> 0,
      successfulTransactions |-> 0,
      failedTransactions     |-> 0,
      totalVolume            |-> 0 ]

\* result.value.volume || 0
VolumeOrZero(r) == IF Truthy(r, "volume") THEN r.volume ELSE 0

\* Fault model: a processing loop that passes over the failed results.
AccountResultSuccessOnly(acc, result, kind, amount) ==
    IF result.status = "fulfilled" /\ result.value.success
    THEN LET v == result.value
             s1 == [acc.session EXCEPT !.totalTransactions = @ + 1,
                                       !.successfulTransactions = @ + 1,
                                       !.totalVolume = @ + (IF kind = "buy" THEN amount
                                                            ELSE VolumeOrZero(v))]
         IN  [session |-> s1, collector |-> recordTransaction(acc.collector, v)]
    ELSE acc

\* The body of "for (const result of results)" in executeBuyTransactions
\* (kind "buy", amount the cycle's buyAmount) and in executeSellBatch.
AccountResult(acc, result, kind, amount) ==
    IF result.status = "fulfilled"
    THEN LET v == result.value
             s1 == [acc.session EXCEPT !.totalTransactions = @ + 1]
             s2 == IF v.success
                   THEN [s1 EXCEPT !.successfulTransactions = @ + 1,
                                   !.totalVolume = @ + (IF kind = "buy" THEN amount
                                                        ELSE VolumeOrZero(v))]
                   ELSE [s1 EXCEPT !.failedTransactions = @ + 1]
         IN  [session |-> s2, collector |-> recordTransaction(acc.collector, v)]
    ELSE [acc EXCEPT !.session.failedTransactions = @ + 1]

RECURSIVE ProcessResults(_, _, _, _)
ProcessResults(acc, results, kind, amount) ==
    IF results = <<>> THEN acc
    ELSE ProcessResults(AccountResult(acc, Head(results), kind, amount),
                        Tail(results), kind, amount)

\* Fault model: the batch is taken as settled with its first settled promise.
AnySettled == \E i \in DOMAIN ops : ops[i].result.status # "pending"

\* await Promise.allSettled(transactions), then the processing loop.
AllSettled == \A i \in DOMAIN ops : ops[i].result.status # "pending"

Accounted(kind) ==
    ProcessResults([session |-> session, collector |-> collector],
                   [i \in DOMAIN ops |-> ops[i].result], kind, buyAmount)

\* Fault model: a session that ends without its bookkeeping.
SessionEndsWithoutBookkeeping(outcome) ==
    /\ UNCHANGED session
    /\ isRunning' = FALSE
    /\ spc' = outcome

\* The session is over: session.isActive = false; session.endTime = new Date();
\* finally { this.isRunning = false }.  outcome "done": executeSession returns;
\* "failed": it rethrows.
SessionEnds(outcome) ==
    /\ session' = [session EXCEPT !.isActive = FALSE, !.endTime = now]
    /\ isRunning' = FALSE
    /\ spc' = outcome

\* throw new BotError(`Pool not found for token: ${...}`, ErrorType.VALIDATION_ERROR)
PoolNotFound(tokenMint) ==
    [type |-> "VALIDATION_ERROR", message |-> <<"Pool not found for token: ", tokenMint>>]

\* fs.readdirSync(tokenWalletsDir) throws: the call is outside the try of
\* getWalletsForSelling, and every caller up to executeSession rethrows.
ReaddirFailure == [type |-> "fs", message |-> <<"readdirSync failed">>]

\* catch (error) { ...; throw error } finally { ... } of executeSession.
SessionFails(error) ==
    /\ SessionEnds("failed")
    /\ sessionThrown' = error

\* What a call that can fail in the way named fault answers in this run: TRUE
\* when it succeeds.
Answers(fault) == {TRUE} \cup (IF fault \in faults THEN {FALSE} ELSE {})

\* The writes of saveWallet that succeed, out of count.
Saved(count) == IF "write" \in faults THEN SUBSET (1 .. count) ELSE {1 .. count}

\* executeTradingCycle up to its first suspension on the ledger: the cycle's
\* draws, createWallets (wallet i is kept unless its write throws, i \notin
\* saved) and the launch of one buy per created wallet.
executeTradingCycle ==
    \E drawAmount \in RandomDraws, drawCount \in RandomDraws :
      LET amount == getRandomAmount(config.buyAmount, drawAmount)
          count == getRandomWalletCount(config.walletCount, drawCount)
      IN  \E saved \in Saved(count) :
            LET wallets == CreatedWallets(count, saved)
            IN  /\ buyAmount' = amount
                /\ files' = files \cup CreatedFiles(count, saved, now)
                /\ nextKey' = nextKey + count
                /\ \E instructions \in [1 .. Len(wallets) -> Answers("swap")] :
                     ops' = [i \in 1 .. Len(wallets) |->
                               StartTrade(NewOp("buy", amount, wallets[i]),
                                          instructions[i])]
                /\ spc' = "buy"
                /\ phases' = <<"create">>
                /\ cyclesStarted' = cyclesStarted + 1

\* Fault model: a cycle loop that does not read the running flag.
CycleContinuesWhenStopped(c, running) == c < config.cycles

\* Fault model: a cycle loop that does not count its cycles.
CycleContinuesUnbounded(c, running) == running

\* for (...; cycle < session.config.cycles; ...) { if (!this.isRunning) break; ...
CycleContinues(c, running) == c < config.cycles /\ running

\* Top of the cycle loop with the loop variable at c.
CycleLoop(c) ==
    /\ cycle' = c
    /\ UNCHANGED sessionThrown
    /\ IF CycleContinues(c, isRunning)
       THEN /\ executeTradingCycle
            /\ UNCHANGED <<session, isRunning>>
       ELSE /\ SessionEnds("done")
            /\ UNCHANGED <<ops, files, nextKey, buyAmount, phases, cyclesStarted>>

executeSession ==
    /\ spc = "idle"
    /\ session' = [session EXCEPT !.isActive = TRUE]
    /\ isRunning' = TRUE
    /\ spc' = "pool"
    /\ UNCHANGED <<clock, env, pfVars, opVars, tmVars, wmVars>>
    /\ UNCHANGED <<config, cycle, buyAmount, sellWallets, sellIdx, sWake, collector,
                   cyclesStarted, phases, stopAt, sessionThrown>>

\* Fault model: the pool is looked at after the first wallet has been created.
GetPoolInfoReturnsAfterWallet(found) ==
    /\ spc = "pool"
    /\ IF found
       THEN CycleLoop(0)
       ELSE /\ SessionFails(PoolNotFound(config.tokenMint))
            /\ files' = files \cup CreatedFiles(1, {1}, now)
            /\ nextKey' = nextKey + 1
            /\ UNCHANGED <<ops, cycle, buyAmount, phases, cyclesStarted>>
    /\ UNCHANGED <<clock, env, pfVars, failuresLeft, tmVars, wmCreated, wmSelling, wmApi>>
    /\ UNCHANGED <<config, sellWallets, sellIdx, sWake, collector, stopAt>>

\* PoolManager.getPoolInfo resolves: pool information, or null.
GetPoolInfoReturns(found) ==
    /\ spc = "pool"
    /\ IF found
       THEN CycleLoop(0)
       ELSE /\ SessionFails(PoolNotFound(config.tokenMint))
            /\ UNCHANGED <<ops, files, nextKey, cycle, buyAmount, phases, cyclesStarted>>
    /\ UNCHANGED <<clock, env, pfVars, failuresLeft, tmVars, wmCreated, wmSelling, wmApi>>
    /\ UNCHANGED <<config, sellWallets, sellIdx, sWake, collector, stopAt>>

\* The buys of the cycle have all settled: account them, then
\* await this.delay(5000).
BuysSettled ==
    /\ spc = "buy"
    /\ AllSettled
    /\ session' = Accounted("buy").session
    /\ collector' = Accounted("buy").collector
    /\ ops' = <<>>
    /\ spc' = "settle"
    /\ sWake' = now + settlePause
    /\ phases' = Append(phases, "buy")
    /\ UNCHANGED <<clock, env, pfVars, failuresLeft, tmVars, wmVars>>
    /\ UNCHANGED <<config, isRunning, cycle, buyAmount, sellWallets, sellIdx,
                   cyclesStarted, stopAt, sessionThrown>>

\* executeTradingCycle has returned to executeSession: the delay is drawn and
\* slept, whatever the cycle number and the running flag.
CycleReturns(done) ==
    /\ \E draw \in RandomDraws :
         sWake' = now + DelayTimeout(getRandomDelay(config.delay, draw))
    /\ spc' = "cycleDelay"
    /\ phases' = Append(done, "sell")
    /\ ops' = <<>>

\* for (let i = 0; i < sellWallets.length; i += batchSize) with i = idx:
\* launch the batch sellWallets.slice(i, i + batchSize), or leave the loop.
SellLoop(idx, wallets, done) ==
    /\ sellIdx' = idx
    /\ IF idx < Len(wallets)
       THEN LET n == IF Len(wallets) - idx < batchSize THEN Len(wallets) - idx
                     ELSE batchSize
            IN  /\ \E draws \in [1 .. n -> RandomDraws],
                      instructions \in [1 .. n -> Answers("swap")] :
                     ops' = [j \in 1 .. n |->
                               StartTrade(NewOp("sell",
                                                getRandomAmount(config.sellAmount, draws[j]),
                                                wallets[idx + j]),
                                          instructions[j])]
                /\ spc' = "sell"
                /\ phases' = done
                /\ UNCHANGED sWake
       ELSE CycleReturns(done)

\* The settle pause is over: executeSellTransactions.  readdir: the
\* readdirSync of getWalletsForSelling succeeds (it is called when the token's
\* directory exists).
SettleDelayFires(readdir) ==
    /\ spc = "settle"
    /\ now >= sWake
    /\ IF DirExists(files, tokenWalletsDir(config.tokenMint)) /\ ~readdir
       THEN /\ SessionFails(ReaddirFailure)
            /\ UNCHANGED <<ops, sellWallets, sellIdx, sWake, phases>>
       ELSE /\ LET wallets == getWalletsForSelling(files, config.tokenMint, now)
               IN  /\ sellWallets' = wallets
                   /\ IF Len(wallets) = 0
                      THEN CycleReturns(Append(phases, "settle")) /\ UNCHANGED sellIdx
                      ELSE SellLoop(0, wallets, Append(phases, "settle"))
            /\ UNCHANGED <<session, isRunning, sessionThrown>>
    /\ UNCHANGED <<clock, env, pfVars, failuresLeft, tmVars, wmVars>>
    /\ UNCHANGED <<config, cycle, buyAmount, collector, cyclesStarted, stopAt>>

\* Fault model: the files of the wallets of a settled batch are removed.
SellsSettledRetiring ==
    /\ spc = "sell"
    /\ AllSettled
    /\ session' = Accounted("sell").session
    /\ collector' = Accounted("sell").collector
    /\ ops' = <<>>
    /\ spc' = "batchDelay"
    /\ sWake' = now + batchPause
    /\ files' = {f \in files : \A i \in DOMAIN ops : f.pk # ops[i].wallet}
    /\ UNCHANGED <<clock, env, pfVars, failuresLeft, tmVars, nextKey, wmCreated,
                   wmSelling, wmApi>>
    /\ UNCHANGED <<config, isRunning, cycle, buyAmount, sellWallets, sellIdx,
                   cyclesStarted, phases, stopAt, sessionThrown>>

\* The sells of the batch have all settled: account them, then
\* await this.delay(1000).
SellsSettled ==
    /\ spc = "sell"
    /\ AllSettled
    /\ session' = Accounted("sell").session
    /\ collector' = Accounted("sell").collector
    /\ ops' = <<>>
    /\ spc' = "batchDelay"
    /\ sWake' = now + batchPause
    /\ UNCHANGED <<clock, env, pfVars, failuresLeft, tmVars, wmVars>>
    /\ UNCHANGED <<config, isRunning, cycle, buyAmount, sellWallets, sellIdx,
                   cyclesStarted, phases, stopAt, sessionThrown>>

\* Fault model: the next batch is launched without the pause after a batch.
BatchDelayFiresAtOnce ==
    /\ spc = "batchDelay"
    /\ SellLoop(sellIdx + batchSize, sellWallets, phases)
    /\ UNCHANGED <<clock, env, pfVars, failuresLeft, tmVars, wmVars>>
    /\ UNCHANGED <<config, session, isRunning, cycle, buyAmount, sellWallets, collector,
                   cyclesStarted, stopAt, sessionThrown>>

BatchDelayFires ==
    /\ spc = "batchDelay"
    /\ now >= sWake
    /\ SellLoop(sellIdx + batchSize, sellWallets, phases)
    /\ UNCHANGED <<clock, env, pfVars, failuresLeft, tmVars, wmVars>>
    /\ UNCHANGED <<config, session, isRunning, cycle, buyAmount, sellWallets, collector,
                   cyclesStarted, stopAt, sessionThrown>>

\* The delay after the cycle is over: cycle++ and back to the loop head.
CycleDelayFires ==
    /\ spc = "cycleDelay"
    /\ now >= sWake
    /\ CycleLoop(cycle + 1)
    /\ UNCHANGED <<clock, env, pfVars, failuresLeft, tmVars, wmCreated, wmSelling, wmApi>>
    /\ UNCHANGED <<config, sellWallets, sellIdx, sWake, collector, stopAt>>

\* TradingEngine.stop(), called by the owner of the engine (BotManager.stop)
\* at any moment while a session runs.
stop ==
    /\ isRunning
    /\ isRunning' = FALSE
    /\ stopAt' = IF stopAt = NoStop THEN [started |-> cyclesStarted, spc |-> spc]
                 ELSE stopAt
    /\ UNCHANGED <<clock, env, pfVars, opVars, tmVars, wmVars>>
    /\ UNCHANGED <<config, session, spc, cycle, buyAmount, sellWallets, sellIdx, sWake,
                   collector, cyclesStarted, phases, sessionThrown>>

(***************************************************************************)
(* Time.                                                                   *)
(***************************************************************************)
Timers ==
    {ops[i].wake : i \in {j \in DOMAIN ops : ops[j].pc = "backoff"}}
    \cup (IF tmPc = "seqDelay" THEN {tmWake} ELSE {})
    \cup (IF spc \in {"settle", "batchDelay", "cycleDelay"} THEN {sWake} ELSE {})
    \cup (IF rfPc \in {"walletDelay", "batchDelay"} THEN {rfWake} ELSE {})
    \cup (IF other.pc \in {"cycle", "cycleDelay"} THEN {other.wake} ELSE {})

\* A continuation that is ready to run now: time does not pass before it has.
Runnable ==
    \/ \E w \in Timers : w <= now
    \/ tmPc = "seq" /\ OpAt(tmIdx, "done")
    \/ tmPc = "par" /\ PromiseAllReady
    \/ spc \in {"buy", "sell"} /\ AllSettled

AwaitingLedger ==
    \/ \E i \in DOMAIN ops : ops[i].pc = "attempt"
    \/ spc = "pool"

\* Time passes up to the next timer deadline.
TimerTick ==
    /\ ~Runnable
    /\ Timers # {}
    /\ now' = Min(Timers)
    /\ UNCHANGED <<lat, env, pfVars, opVars, tmVars, wmVars, seVars>>

\* Time passes while a ledger call is outstanding.
LatencyTick ==
    /\ ~Runnable
    /\ AwaitingLedger
    /\ lat < MaxLatencyTicks
    /\ \A w \in Timers : now + NetLatency <= w
    /\ now' = now + NetLatency
    /\ lat' = lat + 1
    /\ UNCHANGED <<env, pfVars, opVars, tmVars, wmVars, seVars>>

(***************************************************************************)
(* Initial states.                                                         *)
(***************************************************************************)
Range(min, max) == [min |-> min, max |-> max]

\* No retrieveFunds call yet / no attempt to start a session yet.
NoSweep == [status |-> "none"]
NoLaunch == [path |-> "none"]

\* No second executeSession call yet.
NoOther == [pc |-> "idle", cycle |-> 0, cycles |-> 0, started |-> 0, wake |-> NoTimer]

\* No MetricsCollector call yet / no getMetrics yet / no draw yet.
NoCall == [op |-> "none"]
NoSnapshot == [taken |-> FALSE]
NoDraw == [fn |-> "none"]

\* Configurations validateConfig accepts, in the configured units: with
\* amounts and delays drawn from ranges, or fixed (min = max).
Config(cycles, walletCount, drawn) ==
    [ tokenMint   |-> TokenMint,
      cycles      |-> cycles,
      walletCount |-> walletCount,
      buyAmount   |-> IF drawn THEN Range(1, 2) ELSE Range(1, 1),
      sellAmount  |-> IF drawn THEN Range(2, 4) ELSE Range(2, 2),
      delay       |-> IF drawn THEN Range(1, 3) ELSE Range(1, 1) ]

\* Sessions of one cycle with up to MaxWallets wallets and drawn amounts, and
\* sessions of up to MaxCycles cycles with one wallet per cycle and fixed
\* amounts.
SessionConfigs ==
    {Config(1, Range(1, MaxWallets + 1), TRUE)}
    \cup {Config(cycles, Range(1, 1), FALSE) : cycles \in 2 .. MaxCycles}

\* The session of two wallets, one cycle, fixed amounts (0.01 SOL is one unit)
\* and no delay.
ExampleConfig ==
    [ tokenMint   |-> TokenMint,
      cycles      |-> 1,
      walletCount |-> Range(2, 2),
      buyAmount   |-> Range(1, 1),
      sellAmount  |-> Range(1, 1),
      delay       |-> Range(0, 0) ]

\* The failures met during a session: of the ledger's sendTransaction, of the
\* pool lookup, of the swap instruction, of a wallet write, of readdirSync.
SessionFaults == {"send", "pool", "swap", "write", "readdir"}

\* The sessions run: each configuration with failures, and the example
\* configuration with every call succeeding.
SessionRuns ==
    {<<c, SessionFaults>> : c \in SessionConfigs} \cup {<<ExampleConfig, {}>>}

InitEngine ==
    /\ now = 0
    /\ lat = 0
    /\ ops = <<>>
    /\ tmPc = "idle"
    /\ tmIdx = 0
    /\ tmDelayMs = 0
    /\ tmWake = NoTimer
    /\ tmResults = <<>>
    /\ tmLog = <<>>
    /\ nextKey = 1
    /\ wmCreated = {}
    /\ wmSelling = [at |-> NoTimer, wallets |-> <<>>]
    /\ session = NewSession(config)
    /\ isRunning = FALSE
    /\ spc = "idle"
    /\ cycle = 0
    /\ buyAmount = 0
    /\ sellWallets = <<>>
    /\ sellIdx = 0
    /\ sWake = NoTimer
    /\ collector = NewCollector
    /\ cyclesStarted = 0
    /\ phases = <<>>
    /\ stopAt = NoStop
    /\ sessionThrown = NoThrow
    /\ wmReturned = [count |-> 0, wallets |-> <<>>, threw |-> FALSE]
    /\ wmDeleted = {}
    /\ wmSweep = NoSweep
    /\ retryLog = <<>>
    /\ launch = NoLaunch
    /\ mcCall = NoCall
    /\ mcRecorded = <<>>
    /\ mcSnapshot = NoSnapshot
    /\ drawLog = NoDraw
    /\ rfPc = "idle"
    /\ rfWallets = <<>>
    /\ rfIdx = 0
    /\ rfPos = 0
    /\ rfDelayMs = 0
    /\ rfWake = NoTimer
    /\ rfLog = <<>>
    /\ other = NoOther

InitTm ==
    /\ config = Config(1, Range(1, 1), FALSE)
    /\ InitEngine
    /\ debugMode \in BOOLEAN
    /\ faults = AllFaults
    /\ failuresLeft = maxAttempts * MaxOps
    /\ files = {}

InitWallet ==
    /\ config = Config(1, Range(1, 1), FALSE)
    /\ InitEngine
    /\ debugMode = FALSE
    /\ faults = {"write"}
    /\ failuresLeft = 0
    /\ files \in SUBSET OldFiles(MaxOldWallets)

\* Nothing on disk, nothing in flight, no call failing.
InitIdle ==
    /\ config = Config(1, Range(1, 1), FALSE)
    /\ InitEngine
    /\ debugMode = FALSE
    /\ faults = {}
    /\ failuresLeft = 0
    /\ files = {}

Init ==
    /\ \E run \in SessionRuns : config = run[1] /\ faults = run[2]
    /\ InitEngine
    /\ debugMode = FALSE
    /\ failuresLeft = MaxLedgerFailures
    /\ files \in {OldFiles(n) : n \in 0 .. MaxOldWallets}

(***************************************************************************)
(* Specifications of the two batch calls of TransactionManager.            *)
(***************************************************************************)
DelayChoices == {0, baseDelay}

NextPar ==
    \/ \E k \in 0 .. MaxOps : executeTransactionsParallel(k)
    \/ \E i \in DOMAIN ops : \E run \in Runs(i) : SendTransactionSettles(i, run)
    \/ \E i \in DOMAIN ops : RetryDelayFires(i)
    \/ ParallelJoin
    \/ TimerTick

SpecPar == InitTm /\ [][NextPar]_vars

NextSeq ==
    \/ \E k \in 0 .. MaxOps, d \in DelayChoices : executeTransactionsSequential(k, d)
    \/ \E i \in DOMAIN ops : \E run \in Runs(i) : SendTransactionSettles(i, run)
    \/ \E i \in DOMAIN ops : RetryDelayFires(i)
    \/ SequentialSettled
    \/ SequentialDelayFires
    \/ TimerTick
    \/ LatencyTick

SpecSeq == InitTm /\ [][NextSeq]_vars

(***************************************************************************)
(* Specification of the WalletManager interface.                           *)
(***************************************************************************)
ClockSteps == {2000, 29000}

NextWallet ==
    \/ \E count \in 1 .. MaxKeys : \E saved \in Saved(count) :
          WmCreateWallets(count, saved)
    \/ WmGetWalletsForSelling
    \/ \E d \in ClockSteps : WmTimePasses(d)

SpecWallet == InitWallet /\ [][NextWallet]_vars

(***************************************************************************)
(* Specification of one trading session.                                   *)
(***************************************************************************)
Next ==
    \/ executeSession
    \/ \E found \in Answers("pool") : GetPoolInfoReturns(found)
    \/ \E i \in DOMAIN ops : \E run \in Runs(i) : SendTransactionSettles(i, run)
    \/ \E i \in DOMAIN ops : RetryDelayFires(i)
    \/ BuysSettled
    \/ \E readdir \in Answers("readdir") : SettleDelayFires(readdir)
    \/ SellsSettled
    \/ BatchDelayFires
    \/ CycleDelayFires
    \/ stop
    \/ TimerTick

Spec == Init /\ [][Next]_vars

\* The steps the program takes by itself once executeSession has been called:
\* every ledger and pool call returns or fails, every timer fires, every
\* continuation that is ready runs.  stop() is the caller's.
Progress ==
    \/ \E found \in Answers("pool") : GetPoolInfoReturns(found)
    \/ \E i \in DOMAIN ops : \E run \in Runs(i) : SendTransactionSettles(i, run)
    \/ \E i \in DOMAIN ops : RetryDelayFires(i)
    \/ BuysSettled
    \/ \E readdir \in Answers("readdir") : SettleDelayFires(readdir)
    \/ SellsSettled
    \/ BatchDelayFires
    \/ CycleDelayFires
    \/ TimerTick

SpecLive == Init /\ [][Next]_vars /\ WF_vars(Progress)

(***************************************************************************)
(* A session of one cycle that finds up to MaxAgedWallets wallets old      *)
(* enough to sell: more than one batch of batchSize.                       *)
(***************************************************************************)
MaxAgedWallets == 6

InitSell ==
    /\ config = Config(1, Range(1, 1), FALSE)
    /\ InitEngine
    /\ debugMode = FALSE
    /\ faults = {"send"}
    /\ failuresLeft = 1
    /\ files \in {OldFiles(n) : n \in 0 .. MaxAgedWallets}

SpecSell == InitSell /\ [][Next]_vars

(***************************************************************************)
(* A second executeSession call on the same TradingEngine, in flight with  *)
(* the first.  The two calls share the engine's isRunning; the second      *)
(* call is followed through the suspension points of executeSession (pc    *)
(* "pool", "cycle" awaiting executeTradingCycle, "cycleDelay", "done"),    *)
(* its cycle lasting the settle pause.  stop() is not called.              *)
(***************************************************************************)
seButRunning == <<config, session, spc, cycle, buyAmount, sellWallets, sellIdx, sWake,
                  collector, cyclesStarted, phases, stopAt, sessionThrown>>

\* try { session.isActive = true; this.isRunning = true; await getPoolInfo
OtherExecuteSession(cycles) ==
    /\ other.pc = "idle"
    /\ isRunning' = TRUE
    /\ other' = [other EXCEPT !.pc = "pool", !.cycles = cycles]
    /\ UNCHANGED <<clock, env, retryLog, launch, mcVars, drawLog, rfVars>>
    /\ UNCHANGED <<opVars, tmVars, wmVars, seButRunning>>

\* Top of the cycle loop of the second call with the loop variable at c:
\* the next cycle is awaited, or the loop is over and finally runs.
OtherCycleLoop(c) ==
    IF c < other.cycles /\ isRunning
    THEN /\ other' = [other EXCEPT !.pc = "cycle", !.cycle = c, !.started = @ + 1,
                                   !.wake = now + settlePause]
         /\ UNCHANGED isRunning
    ELSE /\ other' = [other EXCEPT !.pc = "done", !.cycle = c, !.wake = NoTimer]
         /\ isRunning' = FALSE

OtherGetPoolInfoReturns ==
    /\ other.pc = "pool"
    /\ OtherCycleLoop(0)
    /\ UNCHANGED <<clock, env, retryLog, launch, mcVars, drawLog, rfVars>>
    /\ UNCHANGED <<opVars, tmVars, wmVars, seButRunning>>

\* executeTradingCycle of the second call has returned: the delay is drawn
\* and slept.
OtherCycleReturns ==
    /\ other.pc = "cycle"
    /\ now >= other.wake
    /\ \E draw \in RandomDraws :
         other' = [other EXCEPT !.pc = "cycleDelay",
                               !.wake = now + DelayTimeout(getRandomDelay(config.delay, draw))]
    /\ UNCHANGED <<clock, env, retryLog, launch, mcVars, drawLog, rfVars>>
    /\ UNCHANGED <<opVars, tmVars, wmVars, seVars>>

OtherCycleDelayFires ==
    /\ other.pc = "cycleDelay"
    /\ now >= other.wake
    /\ OtherCycleLoop(other.cycle + 1)
    /\ UNCHANGED <<clock, env, retryLog, launch, mcVars, drawLog, rfVars>>
    /\ UNCHANGED <<opVars, tmVars, wmVars, seButRunning>>

InitTwo ==
    /\ config \in {Config(cycles, Range(1, 1), FALSE) : cycles \in 1 .. MaxCycles}
    /\ InitEngine
    /\ debugMode = FALSE
    /\ faults = {"send"}
    /\ failuresLeft = 1
    /\ files \in {OldFiles(n) : n \in 0 .. MaxOldWallets}

NextTwo ==
    \/ executeSession
    \/ \E found \in Answers("pool") : GetPoolInfoReturns(found)
    \/ \E i \in DOMAIN ops : \E run \in Runs(i) : SendTransactionSettles(i, run)
    \/ \E i \in DOMAIN ops : RetryDelayFires(i)
    \/ BuysSettled
    \/ \E readdir \in Answers("readdir") : SettleDelayFires(readdir)
    \/ SellsSettled
    \/ BatchDelayFires
    \/ CycleDelayFires
    \/ \E cycles \in 1 .. MaxCycles : OtherExecuteSession(cycles)
    \/ OtherGetPoolInfoReturns
    \/ OtherCycleReturns
    \/ OtherCycleDelayFires
    \/ TimerTick

SpecTwo == InitTwo /\ [][NextTwo]_vars

(***************************************************************************)
(* WalletManager: sweeping a wallet and retiring its file.                 *)
(***************************************************************************)
rentReserve == 5000

MainWallet == "main"

\* path.join(process.cwd(), 'data', 'backup')
backupDir == <<"data", "backup">>

\* The balances a swept wallet can hold, in lamports.
Balances == {0, rentReserve - 1, rentReserve, rentReserve + 1, 2 * rentReserve}

\* What the connection answers to the calls of one retrieveFunds: getBalance,
\* getLatestBlockhash and sendTransaction succeed or throw; confirmTransaction
\* answers "ok", "err" (it resolves with value.err set: the transfer failed on
\* chain) or "throw".
SweepAnswers ==
    [ getBalance : Answers("getBalance"),
      blockhash  : Answers("blockhash"),
      send       : Answers("send"),
      confirm    : {"ok"} \cup (IF "confirmErr" \in faults THEN {"err"} ELSE {})
                          \cup (IF "confirm" \in faults THEN {"throw"} ELSE {}) ]

\* The end of one retrieveFunds call: how it ended, the connection calls it
\* made, the transfers it handed to connection.sendTransaction, and the first
\* call that failed or reported a failure.
Sweep(status, wallet, balance, calls, transfers, failure) ==
    [ status |-> status, wallet |-> wallet, balance |-> balance, calls |-> calls,
      transfers |-> transfers, failure |-> failure ]

\* Fault model: a sweep that moves the whole balance.
retrieveFundsAll(wallet, balance, ledger) ==
    Sweep("resolved", wallet, balance,
          <<"getBalance", "getLatestBlockhash", "sendTransaction", "confirmTransaction">>,
          <<[from |-> wallet, to |-> MainWallet, lamports |-> balance]>>, "none")

\* retrieveFunds(wallet) for a wallet holding balance lamports.
retrieveFunds(wallet, balance, ledger) ==
    LET c1 == <<"getBalance">>
        c2 == Append(c1, "getLatestBlockhash")
        c3 == Append(c2, "sendTransaction")
        c4 == Append(c3, "confirmTransaction")
        transferAmount == balance - rentReserve
        transfer == [from |-> wallet, to |-> MainWallet, lamports |-> transferAmount]
    IN  IF ~ledger.getBalance
        THEN Sweep("rejected", wallet, balance, c1, <<>>, "getBalance")
        ELSE IF balance <= rentReserve
        THEN Sweep("resolved", wallet, balance, c1, <<>>, "none")
        ELSE IF ~ledger.blockhash
        THEN Sweep("rejected", wallet, balance, c2, <<>>, "getLatestBlockhash")
        ELSE IF ~ledger.send
        THEN Sweep("rejected", wallet, balance, c3, <<transfer>>, "sendTransaction")
        ELSE IF ledger.confirm = "throw"
        THEN Sweep("rejected", wallet, balance, c4, <<transfer>>, "confirmTransaction")
        ELSE IF ledger.confirm = "err"
        THEN Sweep("resolved", wallet, balance, c4, <<transfer>>, "value.err")
        ELSE Sweep("resolved", wallet, balance, c4, <<transfer>>, "none")

WmRetrieveFunds(wallet, balance, ledger) ==
    /\ wmSweep' = retrieveFunds(wallet, balance, ledger)
    /\ UNCHANGED <<clock, env, pfVars, opVars, tmVars, files, nextKey, wmCreated,
                   wmSelling, wmReturned, wmDeleted, seVars>>

\* The live file of a wallet: wallet_<publicKey>.json in walletsDir.
LiveFiles(fs, wallet) == {f \in fs : f.dir = walletsDir /\ f.pk = wallet}

BackupFiles(fs, wallet) == {f \in fs : f.dir = backupDir /\ f.pk = wallet}

\* backupWallet(wallet): the files after the call; copy is FALSE when
\* copyFileSync throws (the error is logged and the call returns).
backupWallet(fs, wallet, copy, t) ==
    IF LiveFiles(fs, wallet) # {} /\ copy
    THEN (fs \ BackupFiles(fs, wallet)) \cup {WalletFile(backupDir, wallet, t)}
    ELSE fs

\* fs.unlinkSync(filePath) after backupWallet has returned: unlink is FALSE
\* when it throws.
Unlinked(fs, wallet, copy, unlink) ==
    IF unlink THEN fs \ LiveFiles(fs, wallet) ELSE fs

\* deleteWallet(wallet)
WmDeleteWallet(wallet, copy, unlink) ==
    /\ IF LiveFiles(files, wallet) # {}
       THEN /\ files' = Unlinked(backupWallet(files, wallet, copy, now), wallet, copy, unlink)
            /\ wmDeleted' = IF LiveFiles(files', wallet) = {}
                            THEN wmDeleted \cup {wallet} ELSE wmDeleted
       ELSE UNCHANGED <<files, wmDeleted>>
    /\ UNCHANGED <<clock, env, pfVars, opVars, tmVars, nextKey, wmCreated, wmSelling,
                   wmReturned, wmSweep, seVars>>

CustodyFaults ==
    {"write", "copy", "unlink", "getBalance", "blockhash", "send", "confirm", "confirmErr"}

InitCustody ==
    /\ config = Config(1, Range(1, 1), FALSE)
    /\ InitEngine
    /\ debugMode = FALSE
    /\ faults = CustodyFaults
    /\ failuresLeft = 0
    /\ files = {}

NextCustody ==
    \/ \E count \in 1 .. MaxKeys : \E saved \in Saved(count) :
          WmCreateWallets(count, saved)
    \/ \E wallet \in 1 .. nextKey - 1, balance \in Balances, ledger \in SweepAnswers :
          WmRetrieveFunds(wallet, balance, ledger)
    \/ \E wallet \in 1 .. nextKey - 1, copy \in Answers("copy"),
          unlink \in Answers("unlink") :
          WmDeleteWallet(wallet, copy, unlink)

SpecCustody == InitCustody /\ [][NextCustody]_vars

(***************************************************************************)
(* TradingEngine.retrieveFunds: the sweep of every wallet of a token.      *)
(* rfPc: "idle" not called; "sweep" awaiting walletManager.retrieveFunds;  *)
(* "walletDelay" in the delay after a sweep; "batchDelay" in the delay     *)
(* after a batch; "returned"; "threw" rethrown.                            *)
(***************************************************************************)
retrieveBatchSize == 5
defaultDelayMs == 300

\* getAllWallets(tokenMint) over the files fs, in readdir order.
getAllWallets(fs, tokenMint) ==
    LET dir == tokenWalletsDir(tokenMint)
    IN  IF ~DirExists(fs, dir) THEN <<>>
        ELSE SortedSeq({f.pk : f \in {g \in fs : g.dir = dir}})

\* const batch = wallets.slice(i, i + batchSize)
RetrieveBatch(wallets, i) ==
    SubSeq(wallets, i + 1,
           IF i + retrieveBatchSize < Len(wallets) THEN i + retrieveBatchSize
           ELSE Len(wallets))

\* for (const wallet of wallets) of retrieveFundsBatch at position pos of the
\* batch: the sweep of that wallet is awaited, or the batch is over and
\* retrieveFunds awaits this.delay(delayMs).
retrieveFundsBatch(pos, batch, delayMs) ==
    IF pos <= Len(batch)
    THEN /\ rfPos' = pos
         /\ rfPc' = "sweep"
         /\ rfWake' = NoTimer
    ELSE /\ rfPos' = pos
         /\ rfPc' = "batchDelay"
         /\ rfWake' = now + delayMs

\* for (let i = 0; i < wallets.length; i += batchSize) with i = idx.
RetrieveLoop(idx, wallets, delayMs) ==
    /\ rfIdx' = idx
    /\ IF idx < Len(wallets)
       THEN retrieveFundsBatch(1, RetrieveBatch(wallets, idx), delayMs)
       ELSE /\ rfPc' = "returned"
            /\ rfPos' = 0
            /\ rfWake' = NoTimer

\* TradingEngine.retrieveFunds(tokenMint, delayMs) up to its first suspension
\* on the ledger.  readdir: the readdirSync of getAllWallets succeeds.
EngineRetrieveFunds(delayMs, readdir) ==
    /\ rfPc = "idle"
    /\ rfDelayMs' = delayMs
    /\ IF DirExists(files, tokenWalletsDir(config.tokenMint)) /\ ~readdir
       THEN /\ rfPc' = "threw"
            /\ UNCHANGED <<rfWallets, rfIdx, rfPos, rfWake>>
       ELSE LET wallets == getAllWallets(files, config.tokenMint)
            IN  /\ rfWallets' = wallets
                /\ IF Len(wallets) = 0
                   THEN /\ rfPc' = "returned"
                        /\ UNCHANGED <<rfIdx, rfPos, rfWake>>
                   ELSE RetrieveLoop(0, wallets, delayMs)
    /\ UNCHANGED <<clock, env, retryLog, launch, mcVars, drawLog, other, rfLog>>
    /\ UNCHANGED <<opVars, tmVars, wmVars, seVars>>

\* Fault model: a batch loop without its try/catch.
SweepEndsUncaught(sweep) ==
    IF sweep.status = "resolved"
    THEN /\ rfPc' = "walletDelay"
         /\ rfWake' = now + rfDelayMs
         /\ UNCHANGED rfPos
    ELSE /\ rfPc' = "threw"
         /\ UNCHANGED <<rfPos, rfWake>>

\* try { await this.walletManager.retrieveFunds(wallet); await
\* this.delay(delayMs) } catch (error) { this.logger.error(...) }
SweepEnds(sweep) ==
    IF sweep.status = "resolved"
    THEN /\ rfPc' = "walletDelay"
         /\ rfWake' = now + rfDelayMs
         /\ UNCHANGED rfPos
    ELSE retrieveFundsBatch(rfPos + 1, RetrieveBatch(rfWallets, rfIdx), rfDelayMs)

\* walletManager.retrieveFunds(wallet) settles for the wallet the batch is at.
SweepSettles(balance, ledger) ==
    /\ rfPc = "sweep"
    /\ LET wallet == RetrieveBatch(rfWallets, rfIdx)[rfPos]
           sweep == retrieveFunds(wallet, balance, ledger)
       IN  /\ rfLog' = Append(rfLog, [wallet |-> wallet, status |-> sweep.status,
                                      at |-> now])
           /\ SweepEnds(sweep)
    /\ UNCHANGED <<clock, env, retryLog, launch, mcVars, drawLog, other>>
    /\ UNCHANGED <<rfWallets, rfIdx, rfDelayMs>>
    /\ UNCHANGED <<opVars, tmVars, wmVars, seVars>>

\* The delay after a sweep that returned is over: on to the next wallet.
WalletDelayFires ==
    /\ rfPc = "walletDelay"
    /\ now >= rfWake
    /\ retrieveFundsBatch(rfPos + 1, RetrieveBatch(rfWallets, rfIdx), rfDelayMs)
    /\ UNCHANGED <<clock, env, retryLog, launch, mcVars, drawLog, other>>
    /\ UNCHANGED <<rfWallets, rfIdx, rfDelayMs, rfLog>>
    /\ UNCHANGED <<opVars, tmVars, wmVars, seVars>>

\* The delay after a batch is over: i += batchSize and back to the loop head.
RetrieveDelayFires ==
    /\ rfPc = "batchDelay"
    /\ now >= rfWake
    /\ RetrieveLoop(rfIdx + retrieveBatchSize, rfWallets, rfDelayMs)
    /\ UNCHANGED <<clock, env, retryLog, launch, mcVars, drawLog, other>>
    /\ UNCHANGED <<rfWallets, rfDelayMs, rfLog>>
    /\ UNCHANGED <<opVars, tmVars, wmVars, seVars>>

\* The delays asked for: none, and the default.
RetrieveDelays == {0, defaultDelayMs}

InitRetrieve ==
    /\ config = Config(1, Range(1, 1), FALSE)
    /\ InitEngine
    /\ debugMode = FALSE
    /\ faults = {"send", "confirmErr", "readdir"}
    /\ failuresLeft = 0
    /\ files \in {OldFiles(n) : n \in 0 .. MaxAgedWallets}

NextRetrieve ==
    \/ \E delayMs \in RetrieveDelays, readdir \in Answers("readdir") :
          EngineRetrieveFunds(delayMs, readdir)
    \/ \E balance \in Balances, ledger \in SweepAnswers : SweepSettles(balance, ledger)
    \/ WalletDelayFires
    \/ RetrieveDelayFires
    \/ TimerTick

SpecRetrieve == InitRetrieve /\ [][NextRetrieve]_vars

(***************************************************************************)
(* MetricsCollector called directly.                                       *)
(***************************************************************************)
MaxRecords == 5

\* The results recorded: successful ones carry their volume; the execution
\* times sit on both sides of the 30 s limit of isHealthy.
RecordedResults ==
    {[signature |-> Signature(1, 1), success |-> TRUE, executionTime |-> t, volume |-> 1] :
        t \in {30000, 30001}}
    \cup {[signature |-> EmptySignature, success |-> FALSE, executionTime |-> 30000,
           error |-> SendFailure]}

\* reset(): fresh metrics object, empty transactionTimes.
reset(c) == NewCollector

\* Fault model: a snapshot that is the aggregator's own metrics object.
getMetricsAliased(c) == [alias |-> TRUE, value |-> c.metrics]

\* getMetrics(): { ...this.metrics }, a new object holding the fields' values.
\* alias tells whether the returned object is this.metrics itself.
getMetrics(c) == [alias |-> FALSE, value |-> c.metrics]

\* Fault model: healthy when the success rate is strictly above 80.
isHealthyAbove(c) ==
    /\ c.metrics.totalTransactions > 0
    /\ c.metrics.successRate.num > 80 * c.metrics.successRate.den
    /\ c.metrics.averageTransactionTime.num <= 30000 * c.metrics.averageTransactionTime.den

\* isHealthy()
isHealthy(c) ==
    /\ c.metrics.totalTransactions > 0
    /\ c.metrics.successRate.num >= 80 * c.metrics.successRate.den
    /\ c.metrics.averageTransactionTime.num <= 30000 * c.metrics.averageTransactionTime.den

\* The session variables a MetricsCollector call leaves alone.
seButCollector ==
    <<config, session, isRunning, spc, cycle, buyAmount, sellWallets, sellIdx, sWake,
      cyclesStarted, phases, stopAt, sessionThrown>>

\* What a write to this.metrics does to the snapshot: it shows in the snapshot
\* only when the snapshot is that same object.
SnapshotAfter(snapshot, metrics) ==
    IF snapshot.taken /\ snapshot.alias THEN [snapshot EXCEPT !.value = metrics]
    ELSE snapshot

McRecordTransaction(result) ==
    /\ Len(mcRecorded) < MaxRecords
    /\ collector' = recordTransaction(collector, result)
    /\ mcRecorded' = Append(mcRecorded, result)
    /\ mcCall' = [op |-> "recordTransaction", result |-> result]
    /\ mcSnapshot' = SnapshotAfter(mcSnapshot, collector'.metrics)
    /\ UNCHANGED <<clock, env, opVars, tmVars, wmVars, seButCollector, retryLog, launch,
                   drawLog, teVars>>

\* reset() replaces this.metrics: an earlier snapshot is no longer that object.
McReset ==
    /\ collector' = reset(collector)
    /\ mcRecorded' = <<>>
    /\ mcCall' = [op |-> "reset"]
    /\ mcSnapshot' = IF mcSnapshot.taken THEN [mcSnapshot EXCEPT !.alias = FALSE]
                     ELSE mcSnapshot
    /\ UNCHANGED <<clock, env, opVars, tmVars, wmVars, seButCollector, retryLog, launch,
                   drawLog, teVars>>

McGetMetrics ==
    /\ mcSnapshot' = [ taken    |-> TRUE,
                       alias    |-> getMetrics(collector).alias,
                       value    |-> getMetrics(collector).value,
                       atCall   |-> collector.metrics,
                       modified |-> FALSE ]
    /\ mcCall' = [op |-> "getMetrics"]
    /\ UNCHANGED <<clock, env, opVars, tmVars, wmVars, seVars, retryLog, launch,
                   mcRecorded, drawLog, teVars>>

\* The caller of getMetrics writes to the object it was given:
\* snapshot.totalTransactions = -1.
McModifySnapshot ==
    /\ mcSnapshot.taken
    /\ ~mcSnapshot.modified
    /\ mcSnapshot' = [mcSnapshot EXCEPT !.value.totalTransactions = 0 - 1,
                                        !.modified = TRUE]
    /\ collector' = IF mcSnapshot.alias
                    THEN [collector EXCEPT !.metrics = mcSnapshot'.value]
                    ELSE collector
    /\ mcCall' = [op |-> "modify"]
    /\ UNCHANGED <<clock, env, opVars, tmVars, wmVars, seButCollector, retryLog, launch,
                   mcRecorded, drawLog, teVars>>

McIsHealthy ==
    /\ mcCall' = [op |-> "isHealthy", returned |-> isHealthy(collector)]
    /\ UNCHANGED <<clock, env, opVars, tmVars, wmVars, seVars, retryLog, launch,
                   mcRecorded, mcSnapshot, drawLog, teVars>>

NextMetrics ==
    \/ \E result \in RecordedResults : McRecordTransaction(result)
    \/ McReset
    \/ McGetMetrics
    \/ McModifySnapshot
    \/ McIsHealthy

SpecMetrics == InitIdle /\ [][NextMetrics]_vars

(***************************************************************************)
(* The random draws of TradingEngine evaluated on their own.               *)
(***************************************************************************)
MaxRangeValue == 5

\* Ranges validateConfig accepts: min <= max, from lowest up.
RangesFrom(lowest) ==
    UNION {{Range(min, max) : max \in min .. MaxRangeValue} : min \in lowest .. MaxRangeValue}

Drawn(fn, range, draw, value) ==
    [fn |-> fn, range |-> range, draw |-> draw, value |-> value]

DrawAmount(range, draw) ==
    /\ drawLog' = Drawn("getRandomAmount", range, draw, getRandomAmount(range, draw))
    /\ UNCHANGED <<clock, env, opVars, tmVars, wmVars, seVars, retryLog, launch, mcVars, teVars>>

DrawWalletCount(range, draw) ==
    /\ drawLog' = Drawn("getRandomWalletCount", range, draw,
                        getRandomWalletCount(range, draw))
    /\ UNCHANGED <<clock, env, opVars, tmVars, wmVars, seVars, retryLog, launch, mcVars, teVars>>

DrawDelay(range, draw) ==
    /\ drawLog' = Drawn("getRandomDelay", range, draw, getRandomDelay(range, draw))
    /\ UNCHANGED <<clock, env, opVars, tmVars, wmVars, seVars, retryLog, launch, mcVars, teVars>>

NextDraw ==
    \/ \E range \in RangesFrom(1), draw \in RandomDraws : DrawAmount(range, draw)
    \/ \E range \in RangesFrom(1), draw \in RandomDraws : DrawWalletCount(range, draw)
    \/ \E range \in RangesFrom(0), draw \in RandomDraws : DrawDelay(range, draw)

SpecDraw == InitIdle /\ [][NextDraw]_vars

(***************************************************************************)
(* BotManager: the two ways a session is started.                          *)
(***************************************************************************)
MaxConfigValue == 1

\* The numbers a configuration file or an answer at the prompt can hold.
ConfigValues == (0 - 1) .. MaxConfigValue

Ranges == {Range(min, max) : min \in ConfigValues, max \in ConfigValues}

\* new PublicKey(tokenMint) does not throw.
ValidPublicKey(tokenMint) == tokenMint = TokenMint

\* Configurations as they are read: every field a number (or a string for
\* tokenMint), valid or not.
ConfigData ==
    [ tokenMint   : {TokenMint, ""},
      buyAmount   : Ranges,
      sellAmount  : {Range(1, 1), Range(0, 1)},
      walletCount : {Range(1, 1), Range(1, 0)},
      delay       : {Range(0, 0), Range(0 - 1, 0)},
      cycles      : {0, 1},
      jitoTip     : {0 - 1, 0} ]

\* The errors validateConfig collects for a range whose bounds must be
\* positive (lowest = 1) or non-negative (lowest = 0).
RangeErrors(name, range, lowest) ==
    (IF range.min < lowest THEN {<<name, "min">>} ELSE {})
    \cup (IF range.max < lowest THEN {<<name, "max">>} ELSE {})
    \cup (IF range.min > range.max THEN {<<name, "min > max">>} ELSE {})

\* validateConfig(config): the errors array; the configuration is returned
\* when it is empty, an Error is thrown otherwise.
validateConfig(c) ==
    (IF c.tokenMint = "" \/ ~ValidPublicKey(c.tokenMint) THEN {<<"tokenMint">>} ELSE {})
    \cup RangeErrors("buyAmount", c.buyAmount, 1)
    \cup RangeErrors("sellAmount", c.sellAmount, 1)
    \cup RangeErrors("walletCount", c.walletCount, 1)
    \cup RangeErrors("delay", c.delay, 0)
    \cup (IF c.cycles <= 0 THEN {<<"cycles">>} ELSE {})
    \cup (IF c.jitoTip < 0 THEN {<<"jitoTip">>} ELSE {})

\* executeTradingSession(config): new TradingSession(config), then
\* tradingEngine.executeSession(session).
executeTradingSession(path, c) ==
    [path |-> path, config |-> c, executeSession |-> TRUE]

\* runWithConfig(configPath) on a file holding data:
\* loadConfigFromFile -> validateConfig, then executeTradingSession.
runWithConfig(data) ==
    /\ launch' = IF validateConfig(data) = {}
                 THEN executeTradingSession("file", data)
                 ELSE [path |-> "file", config |-> data, executeSession |-> FALSE]
    /\ UNCHANGED <<clock, env, opVars, tmVars, wmVars, seVars, retryLog, mcVars, drawLog, teVars>>

\* promptTradingConfiguration(): the answers, parsed, as a BotConfig.
promptTradingConfiguration(answers) == answers

\* startTradingSession(): menu entry 1.
startTradingSession(answers) ==
    /\ launch' = executeTradingSession("prompt", promptTradingConfiguration(answers))
    /\ UNCHANGED <<clock, env, opVars, tmVars, wmVars, seVars, retryLog, mcVars, drawLog, teVars>>

NextEntry ==
    \/ \E data \in ConfigData : runWithConfig(data)
    \/ \E answers \in ConfigData : startTradingSession(answers)

SpecEntry == InitIdle /\ [][NextEntry]_vars

(***************************************************************************)
(* calculateRetryDelay evaluated on its own.                               *)
(***************************************************************************)
MaxRetryAttempt == 10

\* this.calculateRetryDelay(attempt): the evaluation is logged in front of the
\* one before it.
RetryDelayEvaluated(attempt) ==
    /\ retryLog' = <<[attempt |-> attempt, delay |-> calculateRetryDelay(attempt)]>>
                    \o (IF retryLog = <<>> THEN <<>> ELSE <<Head(retryLog)>>)
    /\ UNCHANGED <<clock, env, opVars, tmVars, wmVars, seVars, launch, mcVars, drawLog, teVars>>

NextRetry == \E attempt \in 1 .. MaxRetryAttempt : RetryDelayEvaluated(attempt)

SpecRetry == InitIdle /\ [][NextRetry]_vars

(***************************************************************************)
(* Properties.                                                             *)
(***************************************************************************)
Done(op) == op.pc = "done"

\* The operation ended with every attempt failed / with a signature.
Exhausted(op) == Done(op) /\ op.sent = maxAttempts /\ op.lastRun.threw
Succeeded(op) == Done(op) /\ op.sent >= 1 /\ ~op.lastRun.threw

ExhaustedMessage(op) ==
    <<"Transaction failed after ", ToString(maxAttempts), " attempts: ">>
        \o op.lastRun.message

SessionOver == spc \in {"done", "failed"}

\* C1: when executeSession has ended, the session's totalTransactions equals
\* successfulTransactions + failedTransactions, whatever succeeded or failed.
ClaimC1 ==
    SessionOver =>
        session.totalTransactions
            = session.successfulTransactions + session.failedTransactions

WitnessC1 ==
    /\ spc = "done"
    /\ session.successfulTransactions >= 1
    /\ session.failedTransactions >= 1

\* C2: a wallet createWallets returned at time T is in the answer of
\* getWalletsForSelling at a later time exactly when its age then is at least
\* 30 seconds (absent at T + 29 s, present at T + 31 s).
ClaimC2 ==
    wmSelling.at # NoTimer =>
        \A w \in wmCreated :
            w.at <= wmSelling.at =>
                (InSeq(w.pk, wmSelling.wallets) <=> wmSelling.at - w.at >= 30000)

\* C3: executeTransaction calls sendTransaction at most maxAttempts times; it
\* returns the signature of the first attempt that succeeds and makes no
\* further attempt; when every attempt has failed it throws a TRANSACTION_ERROR
\* whose message and context carry the error of the last attempt.
ClaimC3 ==
    \A i \in DOMAIN ops :
        LET op == ops[i]
        IN  /\ op.sent <= maxAttempts
            /\ Done(op) /\ ~op.lastRun.threw =>
                 /\ op.result.value.success
                 /\ op.result.value.signature = Signature(i, op.sent)
                 /\ op.thrown = NoThrow
            /\ Done(op) /\ op.lastRun.threw =>
                 /\ op.sent = maxAttempts
                 /\ op.thrown.type = "TRANSACTION_ERROR"
                 /\ op.thrown.message = ExhaustedMessage(op)
                 /\ op.thrown.context.lastError = op.lastRun.message

WitnessC3 ==
    /\ Len(ops) = 2
    /\ Exhausted(ops[1])
    /\ Succeeded(ops[2]) /\ ops[2].sent = 2

\* C4: a buy or sell whose first two attempts fail and whose third succeeds
\* yields a result with success true and the third attempt's signature, and an
\* executionTime that covers the three attempts and the two backoff delays.
ClaimC4 ==
    \A i \in DOMAIN ops :
        LET op == ops[i]
        IN  op.kind # "raw" /\ Succeeded(op) /\ op.sent = 3 =>
              /\ op.result.status = "fulfilled"
              /\ op.result.value.success
              /\ op.result.value.signature = Signature(i, 3)
              /\ op.result.value.executionTime >= 1000 + 2000
              /\ op.result.value.executionTime <= now - op.startTime

WitnessC4 ==
    \E i \in DOMAIN ops : ops[i].kind = "buy" /\ Succeeded(ops[i]) /\ ops[i].sent = 3

\* C5: a buy or sell whose attempts all fail yields a result with success
\* false, an empty signature and the error text of the exhausted retries; the
\* operation does not reject, and the batch that holds it counts it once, as
\* failed.
FailedResults == {i \in DOMAIN ops : ~ops[i].result.value.success}

ShapeC5 ==
    \A i \in DOMAIN ops :
        LET op == ops[i]
        IN  op.kind # "raw" /\ Exhausted(op) =>
              /\ op.result.status = "fulfilled"
              /\ ~op.result.value.success
              /\ op.result.value.signature = EmptySignature
              /\ op.result.value.error = ExhaustedMessage(op)

CountedC5 ==
    spc \in {"buy", "sell"} /\ spc' # spc /\ (\E i \in DOMAIN ops : Exhausted(ops[i])) =>
        /\ session'.totalTransactions = session.totalTransactions + Len(ops)
        /\ session'.failedTransactions
              = session.failedTransactions + Cardinality(FailedResults)
        /\ session'.successfulTransactions
              = session.successfulTransactions + Len(ops) - Cardinality(FailedResults)

ClaimC5 == []ShapeC5 /\ [][CountedC5]_vars

WitnessC5 ==
    /\ spc = "settle"
    /\ cyclesStarted = 1
    /\ session.totalTransactions = 1
    /\ session.failedTransactions = 1
    /\ failuresLeft = MaxLedgerFailures - maxAttempts

\* C6: executeTransactionsParallel has started every one of its k transactions
\* when it first awaits; it returns exactly k results, result i being the
\* outcome of transaction i; a transaction that fails leaves the others to run
\* to their own outcome.
OwnOutcome(i, r) ==
    IF ops[i].lastRun.threw
    THEN ~r.success /\ r.error = ExhaustedMessage(ops[i]) /\ ops[i].sent = maxAttempts
    ELSE r.success /\ r.signature = Signature(i, ops[i].sent)

ClaimC6 ==
    /\ tmPc = "par" => \A i \in DOMAIN ops : ops[i].sent >= 1
    /\ tmPc # "rejected"
    /\ tmPc = "returned" =>
         /\ DOMAIN tmResults = DOMAIN ops
         /\ \A i \in DOMAIN ops : Done(ops[i]) /\ OwnOutcome(i, tmResults[i])

WitnessC6 ==
    /\ tmPc = "returned"
    /\ Len(tmResults) = MaxOps
    /\ ~tmResults[1].success
    /\ tmResults[MaxOps].success

\* C7: executeTransactionsSequential does not submit transaction i + 1 before
\* transaction i has its final outcome; a failed transaction does not keep the
\* next from running; the results are one per input, in input order.
ClaimC7 ==
    /\ tmPc # "idle" =>
         \A i \in DOMAIN ops :
             i + 1 \in DOMAIN ops /\ ops[i + 1].sent >= 1 => Done(ops[i])
    /\ tmPc = "returned" =>
         /\ DOMAIN tmResults = DOMAIN ops
         /\ \A i \in DOMAIN ops : Done(ops[i]) /\ OwnOutcome(i, tmResults[i])

WitnessC7 ==
    /\ tmPc = "returned"
    /\ Len(tmResults) = 2
    /\ ~tmResults[1].success
    /\ tmResults[2].success

\* C8: executeTransactionsSequential pauses for the inter-transaction delay
\* between every two consecutive transactions, whether the earlier one
\* succeeded or failed, and does not pause after the last one.
ClaimC8 ==
    /\ \A i \in DOMAIN ops :
          i + 1 \in DOMAIN ops /\ ops[i + 1].sent >= 1 =>
              ops[i + 1].startTime >= tmLog[i].settledAt + tmDelayMs
    /\ tmPc = "seqDelay" => tmIdx < Len(ops)

\* C9: the running flag is read at the top of each cycle only: a cycle in
\* progress when stop() is called runs to its end (wallet creation, buys,
\* settle pause, sells), and no cycle starts after the call.
MidCycle == {"buy", "settle", "sell", "batchDelay"}

ClaimC9 ==
    stopAt # NoStop =>
        /\ cyclesStarted = stopAt.started
        /\ spc = "done" /\ stopAt.spc \in MidCycle =>
              phases = <<"create", "buy", "settle", "sell">>

WitnessC9 ==
    /\ spc = "done"
    /\ stopAt.spc = "buy"
    /\ cyclesStarted = 1
    /\ config.cycles = 2

\* C10: executeSession sleeps the inter-cycle delay only when another cycle
\* follows: not after the last cycle, and not after a cycle during which stop
\* was requested.
ClaimC10 ==
    [][spc' = "cycleDelay" /\ spc # "cycleDelay" =>
          cycle + 1 < config.cycles /\ isRunning]_vars

\* C11: on every exit of executeSession (all cycles done, stopped, pool not
\* resolved, an error coming out of a cycle) the session is inactive and its
\* end time is set when the call returns or rejects, and the call rejects
\* with the fatal error exactly when there is one.
ClaimC11 ==
    /\ SessionOver =>
          /\ ~session.isActive
          /\ session.endTime # NoTimer
          /\ session.endTime <= now
          /\ ~isRunning
    /\ (spc = "failed") = (sessionThrown # NoThrow)
    /\ spc = "done" => sessionThrown = NoThrow

\* A session that ended on an error thrown inside its first cycle.
WitnessC11 ==
    /\ spc = "failed"
    /\ sessionThrown = ReaddirFailure
    /\ cyclesStarted = 1
    /\ phases = <<"create", "buy">>
    /\ session.endTime = now
    /\ ~session.isActive

\* C12: when the pool cannot be resolved, executeSession fails before any
\* cycle: no wallet has been created, no transaction submitted, and the
\* session's total, successful and failed counters are 0.
ClaimC12 ==
    sessionThrown = PoolNotFound(config.tokenMint) =>
      /\ spc = "failed"
      /\ cyclesStarted = 0
      /\ nextKey = 1
      /\ \A f \in files : f.dir # saveWalletDir(config.tokenMint)
      /\ ops = <<>>
      /\ failuresLeft = MaxLedgerFailures
      /\ session.totalTransactions = 0
      /\ session.successfulTransactions = 0
      /\ session.failedTransactions = 0
      /\ collector = NewCollector

\* A session rejected for its pool, with wallet files of an earlier run around.
WitnessC12 ==
    /\ spc = "failed"
    /\ sessionThrown = PoolNotFound(config.tokenMint)
    /\ ~session.isActive
    /\ files = OldFiles(MaxOldWallets)

\* C13: operations that exhaust their retries never abort a session: with no
\* stop requested, a session that returns has run all config.cycles cycles,
\* the only errors executeSession rejects with are those of the pool and of
\* the wallet directory, and the success rate reported at the end is below
\* 100 whenever at least one operation failed.
ClaimC13 ==
    /\ spc = "done" /\ stopAt = NoStop =>
          cyclesStarted = config.cycles /\ cycle = config.cycles
    /\ sessionThrown \in {NoThrow, PoolNotFound(config.tokenMint), ReaddirFailure}
    /\ spc = "done" /\ session.failedTransactions >= 1 =>
          getSuccessRate(session).num < 100 * getSuccessRate(session).den

\* A session of MaxCycles cycles that returned, never stopped, in which one
\* operation succeeded and another used up the ledger's failures.
WitnessC13 ==
    /\ spc = "done"
    /\ stopAt = NoStop
    /\ config.cycles = MaxCycles
    /\ cyclesStarted = MaxCycles
    /\ failuresLeft = MaxLedgerFailures - maxAttempts
    /\ session.failedTransactions >= 1
    /\ session.successfulTransactions >= 1

\* What C14 calls an invalid configuration.
InvalidRange(range) == range.min > range.max

InvalidC14(c) ==
    \/ InvalidRange(c.buyAmount) \/ InvalidRange(c.sellAmount)
    \/ InvalidRange(c.walletCount) \/ InvalidRange(c.delay)
    \/ c.buyAmount.min <= 0 \/ c.buyAmount.max <= 0
    \/ c.sellAmount.min <= 0 \/ c.sellAmount.max <= 0
    \/ c.walletCount.min <= 0 \/ c.walletCount.max <= 0
    \/ c.delay.min < 0 \/ c.delay.max < 0
    \/ c.cycles <= 0
    \/ c.jitoTip < 0

\* C14: no session starts with an invalid configuration, from a configuration
\* file or from the interactive prompt: executeSession is invoked only with a
\* configuration that is not invalid.
ClaimC14 ==
    launch.path # "none" /\ launch.executeSession => ~InvalidC14(launch.config)

\* The part of C14 about configuration files.
FileEntryValidated ==
    launch.path = "file" /\ launch.executeSession => ~InvalidC14(launch.config)

\* C15: with buy and sell amounts fixed at 0.01, two wallets per cycle, no
\* delay, one cycle, a pool that resolves, every call succeeding and no wallet
\* 30 seconds old, the finished session has totalTransactions = 2 (two buys,
\* no sell) and a success rate of 100.
ClaimC15 ==
    /\ config = ExampleConfig
    /\ faults = {}
    /\ getWalletsForSelling(files, config.tokenMint, now) = <<>>
    /\ SessionOver
    /\ stopAt = NoStop
    => /\ spc = "done"
       /\ session.totalTransactions = 2
       /\ session.successfulTransactions = 2
       /\ session.failedTransactions = 0
       /\ getSuccessRate(session) = Ratio(100 * 2, 2)

\* The example session, finished: two wallets written, two buys, no sell.
WitnessC15 ==
    /\ config = ExampleConfig
    /\ faults = {}
    /\ spc = "done"
    /\ stopAt = NoStop
    /\ nextKey = 3
    /\ phases = <<"create", "buy", "settle", "sell">>
    /\ session.totalTransactions = 2
    /\ collector.metrics.totalTransactions = 2

\* C16: the retry delay of an attempt never exceeds maxDelay, and the delay of
\* an earlier attempt is never longer than that of a later one.
ClaimC16 ==
    /\ \A i \in DOMAIN retryLog : retryLog[i].delay <= maxDelay
    /\ \A i, j \in DOMAIN retryLog :
          retryLog[i].attempt < retryLog[j].attempt =>
            retryLog[i].delay <= retryLog[j].delay

\* A delay below the cap followed by the delay of a later attempt, capped.
WitnessC16 ==
    /\ Len(retryLog) = 2
    /\ retryLog[2].attempt < retryLog[1].attempt
    /\ retryLog[2].delay < retryLog[1].delay
    /\ retryLog[1].delay = maxDelay
    /\ baseDelay * Pow(backoffMultiplier, retryLog[1].attempt - 1) > maxDelay

\* C17: createWallets(n) returns at most n wallets and does not fail; every
\* wallet it returns was persisted, and of the n keys it generated exactly
\* those whose persistence succeeded are returned.
ClaimC17 ==
    /\ ~wmReturned.threw
    /\ Len(wmReturned.wallets) <= wmReturned.count
    /\ \A pk \in (nextKey - wmReturned.count) .. (nextKey - 1) :
          InSeq(pk, wmReturned.wallets) =
            (\E f \in files : f.dir = saveWalletDir(TokenMint) /\ f.pk = pk)

\* createWallets(2) in which the first write failed and the second did not.
WitnessC17 ==
    /\ wmReturned.count = 2
    /\ wmReturned.wallets = <<nextKey - 1>>
    /\ \E f \in files : f.dir = saveWalletDir(TokenMint) /\ f.pk = nextKey - 1
    /\ ~\E f \in files : f.pk = nextKey - 2

\* C18: retrieveFunds submits no transfer when the balance is at most 5000
\* lamports; otherwise, once the balance and the blockhash have been obtained,
\* it submits exactly one transfer, of balance - 5000 lamports, from the wallet
\* to the main wallet; a submitted amount is positive and never exceeds the
\* balance.
ClaimC18 ==
    wmSweep.status # "none" =>
      /\ wmSweep.balance <= 5000 => wmSweep.transfers = <<>>
      /\ wmSweep.balance > 5000
           /\ wmSweep.failure \notin {"getBalance", "getLatestBlockhash"}
           => Len(wmSweep.transfers) = 1
      /\ Len(wmSweep.transfers) <= 1
      /\ \A i \in DOMAIN wmSweep.transfers :
            /\ wmSweep.transfers[i].lamports = wmSweep.balance - 5000
            /\ wmSweep.transfers[i].lamports > 0
            /\ wmSweep.transfers[i].lamports <= wmSweep.balance
            /\ wmSweep.transfers[i].from = wmSweep.wallet
            /\ wmSweep.transfers[i].to = MainWallet

\* A wallet holding one lamport above the reserve, swept of that lamport.
WitnessC18 ==
    /\ wmSweep.status = "resolved"
    /\ wmSweep.failure = "none"
    /\ wmSweep.balance = 5001
    /\ Len(wmSweep.transfers) = 1
    /\ wmSweep.transfers[1].lamports = 1
    /\ wmSweep.calls[Len(wmSweep.calls)] = "confirmTransaction"

\* C19: every failure of a fund sweep is surfaced: when the balance query,
\* the submission or the confirmation fails, or the confirmation reports an
\* on-chain error for the transfer, retrieveFunds rejects.
ClaimC19 ==
    wmSweep.status # "none" /\ wmSweep.failure # "none" => wmSweep.status = "rejected"

\* C20: deleteWallet archives before it deletes: a wallet whose live file
\* deleteWallet has removed has a copy in the backup directory.
ClaimC20 ==
    \A wallet \in wmDeleted :
      LiveFiles(files, wallet) = {} => BackupFiles(files, wallet) # {}

\* The results recorded since construction or reset, counted from the history.
RecordedCount == Len(mcRecorded)

RecordedSuccesses == Cardinality({i \in DOMAIN mcRecorded : mcRecorded[i].success})

RecordedTimes == Sum([i \in DOMAIN mcRecorded |-> mcRecorded[i].executionTime])

\* C21: each recordTransaction call increases totalTransactions by exactly 1
\* and exactly one of successfulTransactions / failedTransactions by 1, chosen
\* by result.success, and totalTransactions = successfulTransactions +
\* failedTransactions in every state of the aggregator.
ClaimC21 ==
    /\ [](collector.metrics.totalTransactions =
            collector.metrics.successfulTransactions + collector.metrics.failedTransactions)
    /\ [][ mcCall'.op = "recordTransaction" /\ mcRecorded' # mcRecorded =>
            LET m == collector.metrics
                n == collector'.metrics
            IN  /\ n.totalTransactions = m.totalTransactions + 1
                /\ IF mcCall'.result.success
                   THEN /\ n.successfulTransactions = m.successfulTransactions + 1
                        /\ n.failedTransactions = m.failedTransactions
                   ELSE /\ n.successfulTransactions = m.successfulTransactions
                        /\ n.failedTransactions = m.failedTransactions + 1 ]_vars

\* Successes and failures recorded, the latest a failure.
WitnessC21 ==
    /\ mcCall.op = "recordTransaction"
    /\ ~mcCall.result.success
    /\ RecordedCount = MaxRecords
    /\ collector.metrics.totalTransactions = MaxRecords
    /\ collector.metrics.failedTransactions = 2
    /\ collector.metrics.successfulTransactions = MaxRecords - 2

\* C22: the aggregator's total, successful and failed counts never decrease,
\* whatever operation of MetricsCollector is called.
ClaimC22 ==
    [][ /\ collector'.metrics.totalTransactions >= collector.metrics.totalTransactions
        /\ collector'.metrics.successfulTransactions >=
              collector.metrics.successfulTransactions
        /\ collector'.metrics.failedTransactions >= collector.metrics.failedTransactions
      ]_vars

RateMatchesCounts(m) ==
    IF m.totalTransactions = 0 THEN m.successRate.num = 0
    ELSE m.successRate.num * m.totalTransactions =
           m.successfulTransactions * 100 * m.successRate.den

\* C24: the object getMetrics() returns is consistent (total = successful +
\* failed, successRate matching the counts at the call), is not changed by
\* later recordTransaction calls, and a write to it does not change the
\* aggregator.
ClaimC24 ==
    /\ [](mcSnapshot.taken /\ ~mcSnapshot.modified =>
            /\ mcSnapshot.value = mcSnapshot.atCall
            /\ mcSnapshot.value.totalTransactions =
                  mcSnapshot.value.successfulTransactions
                  + mcSnapshot.value.failedTransactions
            /\ RateMatchesCounts(mcSnapshot.value))
    /\ [][mcCall'.op = "modify" /\ mcSnapshot' # mcSnapshot => collector' = collector]_vars

\* A snapshot taken after one result, untouched, two results later.
WitnessC24 ==
    /\ mcSnapshot.taken
    /\ ~mcSnapshot.modified
    /\ mcSnapshot.value.totalTransactions = 1
    /\ collector.metrics.totalTransactions = 3
    /\ mcCall.op = "recordTransaction"

\* A rate between 0 and 100.
IsPercentage(rate) == rate.den > 0 /\ 0 <= rate.num /\ rate.num <= 100 * rate.den

\* C25: the success rate is derived from the counters: 0 when total is 0 and
\* otherwise successful / total as a percentage, for the session's
\* getSuccessRate() and for the aggregator's successRate after every
\* recordTransaction; it lies between 0 and 100.
ClaimC25 ==
    /\ RateMatchesCounts([session EXCEPT !.isActive = FALSE] @@
                         [successRate |-> getSuccessRate(session)])
    /\ IsPercentage(getSuccessRate(session))
    /\ RateMatchesCounts(collector.metrics)
    /\ IsPercentage(collector.metrics.successRate)

\* A finished session with a success and a failure: a rate strictly between
\* 0 and 100 in the session and in the aggregator.
WitnessC25 ==
    /\ spc = "done"
    /\ session.successfulTransactions >= 1
    /\ session.failedTransactions >= 1
    /\ collector.metrics.totalTransactions = session.totalTransactions
    /\ collector.metrics.successRate = getSuccessRate(session)
    /\ getSuccessRate(session).num > 0
    /\ getSuccessRate(session).num < 100 * getSuccessRate(session).den

\* C26: for a range with min = max = v, every value drawn by getRandomAmount,
\* getRandomDelay and getRandomWalletCount equals v.
ClaimC26 ==
    drawLog.fn # "none" /\ drawLog.range.min = drawLog.range.max =>
      IF drawLog.fn = "getRandomWalletCount"
      THEN drawLog.value = drawLog.range.min
      ELSE drawLog.value = drawLog.range.min * RandDenom

\* The largest draw on the range [3, 3] as a wallet count.
WitnessC26 ==
    /\ drawLog.fn = "getRandomWalletCount"
    /\ drawLog.range = Range(3, 3)
    /\ drawLog.draw = RandDenom - 1
    /\ drawLog.value = 3

SettledWith(success) ==
    {i \in DOMAIN ops : /\ ops[i].result.status = "fulfilled"
                        /\ ops[i].result.value.success = success}

\* The step counts every operation in flight once in the session counters and
\* records it once, in order, in the metrics collector.
CountedOnce ==
    /\ \A i \in DOMAIN ops : ops[i].result.status = "fulfilled"
    /\ session'.totalTransactions = session.totalTransactions + Len(ops)
    /\ session'.successfulTransactions =
          session.successfulTransactions + Cardinality(SettledWith(TRUE))
    /\ session'.failedTransactions =
          session.failedTransactions + Cardinality(SettledWith(FALSE))
    /\ collector'.metrics.totalTransactions =
          collector.metrics.totalTransactions + Len(ops)
    /\ collector'.metrics.successfulTransactions =
          collector.metrics.successfulTransactions + Cardinality(SettledWith(TRUE))
    /\ collector'.metrics.failedTransactions =
          collector.metrics.failedTransactions + Cardinality(SettledWith(FALSE))
    /\ collector'.transactionTimes =
          collector.transactionTimes \o [i \in DOMAIN ops |-> ops[i].result.value.executionTime]

\* C27: in each cycle one buy is started for each wallet that createWallets
\* returned, all of them in the step that starts the first (before the batch
\* is awaited), and when the batch has settled every operation's result,
\* success or failure, adds one to the session counters and one record to the
\* metrics collector.
ClaimC27 ==
    [][/\ spc' = "buy" /\ spc # "buy" =>
             /\ Len(ops') = Cardinality(files' \ files)
             /\ \A f \in files' \ files :
                   Cardinality({i \in DOMAIN ops' : ops'[i].wallet = f.pk}) = 1
             /\ \A i \in DOMAIN ops' :
                   /\ ops'[i].kind = "buy"
                   /\ ops'[i].pc # "new"
                   /\ ops'[i].amount = buyAmount'
             /\ session' = session /\ collector' = collector
       /\ spc = "buy" /\ spc' # "buy" => AllSettled /\ CountedOnce
       /\ spc = "buy" /\ spc' = "buy" => session' = session /\ collector' = collector]_vars

WitnessC27 ==
    /\ spc = "settle"
    /\ cyclesStarted = 1
    /\ session.totalTransactions = 2
    /\ session.successfulTransactions = 1
    /\ session.failedTransactions = 1
    /\ collector.metrics.totalTransactions = 2
    /\ Len(collector.transactionTimes) = 2


\* C28: the phases of a cycle are ordered.  The settlement pause starts in
\* the step in which the last buy of the cycle has its final outcome and is
\* set to end 5 seconds later; the sell-eligibility query (the step that
\* leaves the pause) is made at or after that time, with the phases create and
\* buy behind it.
ClaimC28 ==
    [][/\ spc' = "settle" /\ spc # "settle" =>
             /\ spc = "buy"
             /\ \A i \in DOMAIN ops : Done(ops[i]) /\ ops[i].result.status = "fulfilled"
             /\ sWake' = now + 5000
             /\ now' = now
       /\ spc = "settle" /\ spc' = "settle" => sWake' = sWake
       /\ spc = "settle" /\ spc' # "settle" =>
             /\ now >= sWake
             /\ phases = <<"create", "buy">>
             /\ ops = <<>>
       /\ spc' = "sell" /\ spc \notin {"sell", "batchDelay"} => spc = "settle"
       /\ sellWallets' # sellWallets => spc = "settle"]_vars

\* The sell batch of a cycle whose buys took time to reach their outcome.
WitnessC28 ==
    /\ spc = "sell"
    /\ phases = <<"create", "buy", "settle">>
    /\ sWake > settlePause
    /\ now >= sWake
    /\ session.totalTransactions > 0


\* The batch in flight is the slice of the eligible wallets at the loop
\* variable: one sell per wallet of the slice, in order.
BatchIsSlice ==
    /\ sellIdx < Len(sellWallets)
    /\ Len(ops) = (IF Len(sellWallets) - sellIdx < 5 THEN Len(sellWallets) - sellIdx ELSE 5)
    /\ \A j \in DOMAIN ops :
          /\ ops[j].kind = "sell"
          /\ ops[j].pc # "new"
          /\ ops[j].wallet = sellWallets[sellIdx + j]

\* C29: in the sell phase every eligible wallet gets exactly one sell (the
\* batches are consecutive slices of the list of eligible wallets, which names
\* each eligible wallet once, and the phase ends only past the end of the
\* list), no batch has more than 5 operations, and a batch is launched only
\* when every operation of the batch before it has its final outcome and the
\* pause after that batch has elapsed.
ClaimC29 ==
    /\ [](spc = "sell" => BatchIsSlice /\ Len(ops) <= 5)
    /\ [](spc = "batchDelay" => ops = <<>>)
    /\ [](phases = <<"create", "buy", "settle", "sell">> =>
            session.totalTransactions = Len(sellWallets) + cyclesStarted)
    /\ [][/\ spc = "settle" /\ spc' # "settle" =>
                /\ sellWallets' = getWalletsForSelling(files, config.tokenMint, now)
                /\ \A i, j \in DOMAIN sellWallets' :
                      (sellWallets'[i] = sellWallets'[j]) => (i = j)
                /\ sellIdx' = 0 \/ sellWallets' = <<>>
          /\ spc = "sell" /\ spc' = "sell" =>
                /\ sellIdx' = sellIdx
                /\ Len(ops') = Len(ops)
                /\ \A j \in DOMAIN ops : ops'[j].wallet = ops[j].wallet
          /\ spc = "sell" /\ spc' # "sell" =>
                /\ \A j \in DOMAIN ops : Done(ops[j])
                /\ spc' = "batchDelay"
                /\ sWake' = now + 1000
                /\ sellIdx' = sellIdx
          /\ spc = "batchDelay" /\ spc' = "batchDelay" => sWake' = sWake
          /\ spc = "batchDelay" /\ spc' # "batchDelay" =>
                /\ now >= sWake
                /\ sellIdx' = sellIdx + 5
                /\ IF sellIdx' < Len(sellWallets) THEN spc' = "sell"
                   ELSE spc' = "cycleDelay"
          /\ spc # "settle" => sellWallets' = sellWallets]_vars

\* The second batch of six eligible wallets, after the first batch of five
\* (one of them retried) and its pause.
WitnessC29 ==
    /\ spc = "sell"
    /\ Len(sellWallets) = 6
    /\ sellIdx = 5
    /\ Len(ops) = 1
    /\ ops[1].wallet = sellWallets[6]
    /\ session.totalTransactions = 6
    /\ failuresLeft = 0


\* min(baseDelay * backoffMultiplier^(k - 1), maxDelay) with the defaults.
BackoffAfter(k) ==
    LET delay == 1000 * Pow(2, k - 1) IN IF delay < 10000 THEN delay ELSE 10000

\* C31: when attempt k of an operation fails with k < maxAttempts, the
\* operation sleeps min(baseDelay * backoffMultiplier^(k-1), maxDelay) ms
\* (1000, then 2000) and attempt k + 1 starts when that time has passed, not
\* before; when the last attempt fails the operation has reported its error
\* in the same step, without a pause.
ClaimC31 ==
    [][\A i \in DOMAIN ops :
         i \in DOMAIN ops' =>
           LET op == ops[i]
               next == ops'[i]
           IN  /\ op.pc = "attempt" /\ next.pc = "backoff" =>
                     /\ op.attempt < maxAttempts
                     /\ next.lastRun.threw
                     /\ next.attempt = op.attempt
                     /\ next.wake = now + BackoffAfter(op.attempt)
                     /\ op.attempt = 1 => next.wake = now + 1000
                     /\ op.attempt = 2 => next.wake = now + 2000
               /\ op.pc = "backoff" /\ next.pc = "backoff" => next.wake = op.wake
               /\ op.pc = "backoff" /\ next.pc # "backoff" =>
                     /\ now >= op.wake
                     /\ next.pc = "attempt"
                     /\ next.attempt = op.attempt + 1
                     /\ next.sent = op.sent + 1
               /\ op.pc = "attempt" /\ next.pc = "attempt" => next.attempt = op.attempt
               /\ op.pc = "attempt" /\ op.attempt = maxAttempts /\ next # op =>
                     /\ next.pc = "done"
                     /\ now' = now
                     /\ next.lastRun.threw => next.thrown.type = "TRANSACTION_ERROR"]_vars

\* An operation whose three attempts failed, 1000 + 2000 ms after its start.
WitnessC31 ==
    \E i \in DOMAIN ops :
        /\ Exhausted(ops[i])
        /\ ops[i].startTime = 0
        /\ now = 3000
        /\ tmPc = "par"


\* The positions of the calls named name in a sendTransaction run.
CallsOf(run, name) == {k \in DOMAIN run.calls : run.calls[k].call = name}

\* C32: every attempt begins by fetching a blockhash of its own and makes
\* every later call of the attempt, the confirmation included, with that
\* blockhash; the attempt fails exactly when one of its calls fails or reports
\* an error (blockhash fetch, simulation, send, confirmation), a failed
\* attempt is one failure and is followed by the pause and a new attempt
\* while fewer than maxAttempts have been made; a signature is returned only
\* by an attempt whose confirmation reported no error.
ClaimC32 ==
    [][\A i \in DOMAIN ops :
         i \in DOMAIN ops' =>
           LET op == ops[i]
               next == ops'[i]
               run == next.lastRun
           IN  /\ op.pc = "attempt" /\ next # op =>
                     /\ CallsOf(run, "getLatestBlockhash") = {1}
                     /\ \A k \in DOMAIN run.calls :
                           /\ run.calls[k].blockhash = Blockhash(i, op.attempt)
                           /\ Cardinality(CallsOf(run, run.calls[k].call)) = 1
                           /\ k < Len(run.calls) => run.calls[k].answer = "ok"
                     /\ run.threw <=> run.calls[Len(run.calls)].answer # "ok"
                     /\ run.threw =>
                           /\ next.sent = op.sent
                           /\ failuresLeft' = failuresLeft - 1
                           /\ IF op.attempt < maxAttempts THEN next.pc = "backoff"
                              ELSE next.pc = "done" /\ ~next.result.value.success
                     /\ ~run.threw =>
                           /\ next.pc = "done"
                           /\ next.result.value.success
                           /\ next.result.value.signature = Signature(i, op.attempt)
                           /\ run.calls[Len(run.calls)].call = "confirmTransaction"
                           /\ CallsOf(run, "sendTransaction") = {Len(run.calls) - 1}
               /\ op.pc = "backoff" /\ next # op =>
                     /\ next.pc = "attempt"
                     /\ next.attempt = op.attempt + 1
                     /\ next.sent = op.sent + 1
                     /\ next.attempt <= maxAttempts]_vars

\* An operation waiting for its third attempt after a second attempt whose
\* confirmation reported an error.
WitnessC32 ==
    \E i \in DOMAIN ops :
        /\ ops[i].pc = "backoff"
        /\ ops[i].attempt = 2
        /\ ops[i].lastRun.message = ConfirmationErr
        /\ ops[i].lastRun.calls[1].blockhash = Blockhash(i, 2)

\* C33: an attempt calls simulateTransaction only in debug mode (and then
\* second, after the blockhash); when the simulation fails or reports an
\* error the attempt makes no sendTransaction call and fails with the
\* simulation's error; with debug mode off no attempt simulates.
ClaimC33 ==
    \A i \in DOMAIN ops :
        LET run == ops[i].lastRun
            simulated == CallsOf(run, "simulateTransaction")
        IN  /\ ~debugMode => simulated = {}
            /\ debugMode /\ Len(run.calls) >= 2 => simulated = {2}
            /\ \A k \in simulated :
                  run.calls[k].answer # "ok" =>
                      /\ run.threw
                      /\ CallsOf(run, "sendTransaction") = {}
                      /\ run.message = IF run.calls[k].answer = "err" THEN SimulationErr
                                       ELSE SimulateFailure
                      /\ ops[i].pc \in {"backoff", "done"}
                      /\ ops[i].pc = "done" => ~ops[i].result.value.success

\* An attempt in debug mode that stopped at a simulation reporting an error.
WitnessC33 ==
    \E i \in DOMAIN ops :
        /\ debugMode
        /\ ops[i].pc = "backoff"
        /\ ops[i].lastRun.threw
        /\ ops[i].lastRun.message = SimulationErr
        /\ Len(ops[i].lastRun.calls) = 2


\* The wallets of the sweeps attempted so far, in the order of the attempts.
SweptWallets == [k \in DOMAIN rfLog |-> rfLog[k].wallet]

\* C34: TradingEngine.retrieveFunds attempts the sweep of every wallet that
\* getAllWallets returned exactly once and in list order (the sweeps attempted
\* are always a prefix of the list, and all of it when the call returns); a
\* sweep that fails is followed at once by the sweep of the next wallet, or by
\* the end of its batch; the call rejects only when getAllWallets did.
ClaimC34 ==
    /\ [](/\ Len(rfLog) <= Len(rfWallets)
          /\ SweptWallets = SubSeq(rfWallets, 1, Len(rfLog))
          /\ rfPc = "returned" => SweptWallets = rfWallets
          /\ rfPc = "threw" => rfWallets = <<>> /\ rfLog = <<>>)
    /\ [][/\ Len(rfLog') > Len(rfLog) =>
               /\ Len(rfLog') = Len(rfLog) + 1
               /\ rfLog'[Len(rfLog')].wallet = rfWallets[Len(rfLog')]
               /\ rfLog'[Len(rfLog')].status = "rejected" =>
                     IF Len(rfLog') = Len(rfWallets) \/ Len(rfLog') % 5 = 0
                     THEN rfPc' = "batchDelay"
                     ELSE rfPc' = "sweep" /\ now' = now
          /\ rfPc' = "returned" /\ rfPc # "returned" => Len(rfLog) = Len(rfWallets)]_vars

\* Six wallets swept in two batches, the second and the sixth sweep failing.
WitnessC34 ==
    /\ rfPc = "returned"
    /\ Len(rfWallets) = 6
    /\ rfLog[2].status = "rejected"
    /\ rfLog[3].status = "resolved"
    /\ rfLog[6].status = "rejected"


\* C35: with stop() never called and no fatal error, a session that has
\* ended has run config.cycles cycles, also when a second executeSession call
\* on the same engine is or was in flight with it.
ClaimC35 ==
    /\ spc = "done" /\ stopAt = NoStop /\ sessionThrown = NoThrow =>
          cyclesStarted = config.cycles
    /\ other.pc = "done" /\ stopAt = NoStop => other.started = other.cycles


\* The sum of the amounts of the operations in flight that have succeeded.
RECURSIVE AmountOf(_)
AmountOf(S) ==
    IF S = {} THEN 0
    ELSE LET i == CHOOSE j \in S : TRUE IN ops[i].amount + AmountOf(S \ {i})

\* C36: for a session run against a fresh collector, when the session has
\* ended the collector's total, successful and failed counts equal the
\* session's, and the session's and the collector's total volume are equal;
\* both volumes grow, at the end of each batch, by the sum of the amounts of
\* the batch's successful operations, and at no other step.
ClaimC36 ==
    /\ [](SessionOver =>
            /\ collector.metrics.totalTransactions = session.totalTransactions
            /\ collector.metrics.successfulTransactions = session.successfulTransactions
            /\ collector.metrics.failedTransactions = session.failedTransactions
            /\ collector.metrics.totalVolume = session.totalVolume)
    /\ [][IF spc \in {"buy", "sell"} /\ spc' # spc
          THEN /\ session'.totalVolume = session.totalVolume + AmountOf(SettledWith(TRUE))
               /\ collector'.metrics.totalVolume =
                     collector.metrics.totalVolume + AmountOf(SettledWith(TRUE))
          ELSE /\ session'.totalVolume = session.totalVolume
               /\ collector'.metrics.totalVolume = collector.metrics.totalVolume]_vars

\* A finished session with successful buys and sells and a failed operation.
WitnessC36 ==
    /\ spc = "done"
    /\ phases = <<"create", "buy", "settle", "sell">>
    /\ Len(sellWallets) = 1
    /\ session.failedTransactions = 1
    /\ session.successfulTransactions = 2
    /\ session.totalVolume > buyAmount
    /\ collector.metrics.totalVolume = session.totalVolume


\* The wallet has its record in the token's directory.
HasRecord(fs, wallet) ==
    \E f \in fs : f.dir = tokenWalletsDir(config.tokenMint) /\ f.pk = wallet

ClaimC38 ==
    /\ [](\A i \in DOMAIN ops : ops[i].sent <= maxAttempts /\ ops[i].attempt <= maxAttempts + 1)
    /\ [](cyclesStarted <= config.cycles /\ cycle <= config.cycles)
    /\ (spc \in {"buy", "sell"}) ~> (spc \notin {"buy", "sell"})
    /\ (spc = "pool") ~> (SessionOver /\ ~isRunning)
    /\ [](SessionOver => [](SessionOver /\ ~isRunning))

\* A session of two cycles that has returned after every failure the ledger
\* had in store.
WitnessC38 ==
    /\ spc = "done"
    /\ ~isRunning
    /\ config.cycles = MaxCycles
    /\ cyclesStarted = MaxCycles
    /\ failuresLeft = 0
    /\ stopAt = NoStop

====
